---- MODULE Spec2Model ----
(***************************************************************************)
(* CacheService (backend/services/cacheService.js, carried in              *)
(* src/backend/config/redis.js lines 1056-1360): the five cache strategies,*)
(* the LRU / LFU eviction policies and pattern invalidation, over one      *)
(* Redis keyspace, and the room operations of ChatService (lines 356-535   *)
(* of the same file) that use it.  Strings (keys, patterns, JSON texts)    *)
(* are sequences of one-character strings so that glob matching, lexical   *)
(* ordering and JSON encoding are computed character by character.         *)
(***************************************************************************)
EXTENDS Integers, Sequences, FiniteSets, TLC

VARIABLES
    kv,             \* Redis string keys: key -> [s: JSON text, exp: ms, by, orig]
    lru_access,     \* sorted set 'lru_access': member -> score (Date.now())
    lfu_frequency,  \* sorted set 'lfu_frequency': member -> score (count)
    dirty_keys,     \* set 'dirty_keys'
    users,          \* mockDB.users: the authoritative store, key -> JS value
    timers,         \* pending setTimeout callbacks of writeBack, in due order
    clock,          \* wall clock [sec, ms]; Date.now() = sec * 1000 + ms
    last,           \* what the last completed call did and returned
    hist,           \* the eviction-policy calls completed so far
    inflight,       \* lruSet / lfuSet calls suspended between capacity check and insert
    chat,           \* the chat keys: [hashes, sets, zsets, nums], each key -> value
    calls           \* other calls and callbacks suspended at an await

vars ==
    <<kv, lru_access, lfu_frequency, dirty_keys, users, timers, clock, last, hist, inflight,
      chat, calls>>

-----------------------------------------------------------------------------
(* Bounds of the model.                                                    *)

MaxSec == 2         \* the clock runs for whole seconds 0 .. MaxSec
MaxMs == 1          \* and for milliseconds 0 .. MaxMs within a second
MaxLruOps == 4      \* LRU calls recorded in hist
MaxLfuOps == 6      \* LFU calls recorded in hist
MaxTimers == 2      \* pending deferred write-back tasks
MaxPolicyOps == 2   \* eviction-policy calls in the runs that mix operations
MaxInflight == 2    \* lruSet calls suspended at the same time
MaxJoins == 2       \* joinRoom calls counted per room
MaxCalls == 2       \* other calls suspended at the same time
MaxReads == 3       \* cacheAside calls in the runs where they overlap

(* Program constants.                                                      *)
WriteBackDelay == 1000      \* setTimeout(..., 1000)

-----------------------------------------------------------------------------
(* JavaScript values.  An object is one of the demo's user records         *)
(* { id: n, name: s }, or the info of a chat room.                         *)

JsUndefined == [t |-> "undefined", n |-> 0, s |-> <<>>]
JsNull == [t |-> "null", n |-> 0, s |-> <<>>]
JsNaN == [t |-> "NaN", n |-> 0, s |-> <<>>]
JsBool(b) == [t |-> "boolean", n |-> IF b THEN 1 ELSE 0, s |-> <<>>]
JsNum(n) == [t |-> "number", n |-> n, s |-> <<>>]
JsStr(s) == [t |-> "string", n |-> 0, s |-> s]
JsObj(n, s) == [t |-> "object", n |-> n, s |-> s]
JsEmpty == [t |-> "empty", n |-> 0, s |-> <<>>]     \* the object {}
\* a room's info { id, userCount, users: [...], messageCount: 0 }
JsRoom(id, userCount, userIds) ==
    [t |-> "room", n |-> userCount, s |-> id, users |-> userIds]
JsStats(hits, misses, lruSize, lfuSize) ==
    [t |-> "stats", n |-> 0, s |-> <<>>, hits |-> hits, misses |-> misses,
     lruSize |-> lruSize, lfuSize |-> lfuSize]

\* if (data): JavaScript truthiness of a value
Truthy(v) ==
    CASE v.t \in {"undefined", "null", "NaN"} -> FALSE
      [] v.t \in {"boolean", "number"} -> v.n # 0
      [] v.t = "string" -> v.s # <<>>
      [] OTHER -> TRUE

QUOTE == "\""
BACKSLASH == "\\"
DigitChars == <<"0", "1", "2", "3", "4", "5", "6", "7", "8", "9">>

RECURSIVE Digits(_)
Digits(n) == IF n < 10 THEN <<DigitChars[n + 1]>>
             ELSE Digits(n \div 10) \o <<DigitChars[(n % 10) + 1]>>

RECURSIVE Escape(_)
Escape(s) ==
    IF s = <<>> THEN <<>>
    ELSE (IF Head(s) \in {QUOTE, BACKSLASH} THEN <<BACKSLASH, Head(s)>> ELSE <<Head(s)>>)
         \o Escape(Tail(s))

Quoted(s) == <<QUOTE>> \o Escape(s) \o <<QUOTE>>

NoText == <<"<undefined>">>

USER_COUNT == <<"u", "s", "e", "r", "C", "o", "u", "n", "t">>
USERS == <<"u", "s", "e", "r", "s">>
MESSAGE_COUNT == <<"m", "e", "s", "s", "a", "g", "e", "C", "o", "u", "n", "t">>

\* the elements of an array of strings, comma separated
RECURSIVE StringList(_)
StringList(l) ==
    IF l = <<>> THEN <<>>
    ELSE Quoted(Head(l)) \o (IF Tail(l) = <<>> THEN <<>> ELSE <<",">>) \o StringList(Tail(l))

RoomText(v) ==
    <<"{">> \o Quoted(<<"i", "d">>) \o <<":">> \o Quoted(v.s) \o <<",">>
    \o Quoted(USER_COUNT) \o <<":">> \o Digits(v.n) \o <<",">>
    \o Quoted(USERS) \o <<":", "[">> \o StringList(v.users) \o <<"]", ",">>
    \o Quoted(MESSAGE_COUNT) \o <<":", "0", "}">>

\* JSON.stringify(v): NaN is written as null, undefined has no text
JSONstringify(v) ==
    CASE v.t = "undefined" -> NoText
      [] v.t \in {"null", "NaN"} -> <<"n", "u", "l", "l">>
      [] v.t = "boolean" -> IF v.n = 1 THEN <<"t", "r", "u", "e">>
                            ELSE <<"f", "a", "l", "s", "e">>
      [] v.t = "number" -> Digits(v.n)
      [] v.t = "string" -> Quoted(v.s)
      [] v.t = "room" -> RoomText(v)
      [] OTHER -> <<"{">> \o Quoted(<<"i", "d">>) \o <<":">> \o Digits(v.n) \o <<",">>
                  \o Quoted(<<"n", "a", "m", "e">>) \o <<":">> \o Quoted(v.s) \o <<"}">>

DigitValue(c) == (CHOOSE i \in 1..10 : DigitChars[i] = c) - 1
IsDigit(c) == \E i \in 1..10 : DigitChars[i] = c

\* the digits of text from position i on: [ok, n, next]
RECURSIVE ParseDigits(_, _, _, _)
ParseDigits(text, i, acc, seen) ==
    IF i <= Len(text) /\ IsDigit(text[i])
    THEN ParseDigits(text, i + 1, acc * 10 + DigitValue(text[i]), TRUE)
    ELSE [ok |-> seen, n |-> acc, next |-> i]

\* the string literal whose opening quote is at position i - 1: [ok, s, next]
RECURSIVE ParseChars(_, _, _)
ParseChars(text, i, acc) ==
    IF i > Len(text) THEN [ok |-> FALSE, s |-> acc, next |-> i]
    ELSE IF text[i] = QUOTE THEN [ok |-> TRUE, s |-> acc, next |-> i + 1]
    ELSE IF text[i] = BACKSLASH
         THEN IF i + 1 <= Len(text) /\ text[i + 1] \in {QUOTE, BACKSLASH}
              THEN ParseChars(text, i + 2, Append(acc, text[i + 1]))
              ELSE [ok |-> FALSE, s |-> acc, next |-> i]
    ELSE ParseChars(text, i + 1, Append(acc, text[i]))

ParseString(text, i) ==
    IF i <= Len(text) /\ text[i] = QUOTE THEN ParseChars(text, i + 1, <<>>)
    ELSE [ok |-> FALSE, s |-> <<>>, next |-> i]

Expect(text, i, lit) ==
    i + Len(lit) - 1 <= Len(text) /\ SubSeq(text, i, i + Len(lit) - 1) = lit

ParseFail == [ok |-> FALSE, v |-> JsUndefined]

\* { "id": <digits>, "name": <string> }
ParseObject(text) ==
    LET k1 == <<"{">> \o Quoted(<<"i", "d">>) \o <<":">>
        k2 == <<",">> \o Quoted(<<"n", "a", "m", "e">>) \o <<":">>
    IN IF ~Expect(text, 1, k1) THEN ParseFail
       ELSE LET d == ParseDigits(text, Len(k1) + 1, 0, FALSE)
            IN IF ~d.ok \/ ~Expect(text, d.next, k2) THEN ParseFail
               ELSE LET q == ParseString(text, d.next + Len(k2))
                    IN IF q.ok /\ q.next = Len(text) /\ text[q.next] = "}"
                       THEN [ok |-> TRUE, v |-> JsObj(d.n, q.s)]
                       ELSE ParseFail

\* the array of strings whose first element starts at position i: [ok, l, next]
RECURSIVE ParseList(_, _, _)
ParseList(text, i, acc) ==
    IF i <= Len(text) /\ text[i] = "]" /\ acc = <<>>
    THEN [ok |-> TRUE, l |-> acc, next |-> i + 1]
    ELSE LET q == ParseString(text, i)
         IN IF ~q.ok \/ q.next > Len(text) THEN [ok |-> FALSE, l |-> acc, next |-> i]
            ELSE IF text[q.next] = "," THEN ParseList(text, q.next + 1, Append(acc, q.s))
            ELSE IF text[q.next] = "]"
                 THEN [ok |-> TRUE, l |-> Append(acc, q.s), next |-> q.next + 1]
            ELSE [ok |-> FALSE, l |-> acc, next |-> i]

\* { "id": <string>, "userCount": <digits>, "users": [...], "messageCount": 0 }
ParseRoom(text) ==
    LET k1 == <<"{">> \o Quoted(<<"i", "d">>) \o <<":">>
        k2 == <<",">> \o Quoted(USER_COUNT) \o <<":">>
        k3 == <<",">> \o Quoted(USERS) \o <<":", "[">>
        k4 == <<",">> \o Quoted(MESSAGE_COUNT) \o <<":", "0", "}">>
    IN IF ~Expect(text, 1, k1) THEN ParseFail
       ELSE LET q == ParseString(text, Len(k1) + 1)
            IN IF ~q.ok \/ ~Expect(text, q.next, k2) THEN ParseFail
               ELSE LET d == ParseDigits(text, q.next + Len(k2), 0, FALSE)
                    IN IF ~d.ok \/ ~Expect(text, d.next, k3) THEN ParseFail
                       ELSE LET l == ParseList(text, d.next + Len(k3), <<>>)
                            IN IF l.ok /\ Expect(text, l.next, k4)
                                  /\ l.next + Len(k4) - 1 = Len(text)
                               THEN [ok |-> TRUE, v |-> JsRoom(q.s, d.n, l.l)]
                               ELSE ParseFail

\* the reply handed on as it came, never parsed
JSONparse_Raw(text) == [ok |-> TRUE, v |-> JsStr(text)]

\* JSON.parse(text): [ok, v]; ok = FALSE is the SyntaxError
JSONparse(text) ==
    IF text = <<>> THEN ParseFail
    ELSE IF text = <<"n", "u", "l", "l">> THEN [ok |-> TRUE, v |-> JsNull]
    ELSE IF text = <<"t", "r", "u", "e">> THEN [ok |-> TRUE, v |-> JsBool(TRUE)]
    ELSE IF text = <<"f", "a", "l", "s", "e">> THEN [ok |-> TRUE, v |-> JsBool(FALSE)]
    ELSE IF IsDigit(text[1])
         THEN LET d == ParseDigits(text, 1, 0, FALSE)
              IN IF d.next = Len(text) + 1 /\ (Len(text) = 1 \/ text[1] # "0")
                 THEN [ok |-> TRUE, v |-> JsNum(d.n)] ELSE ParseFail
    ELSE IF text[1] = QUOTE
         THEN LET q == ParseString(text, 1)
              IN IF q.ok /\ q.next = Len(text) + 1
                 THEN [ok |-> TRUE, v |-> JsStr(q.s)] ELSE ParseFail
    ELSE IF text[1] = "{"
         THEN IF Len(text) >= 7 /\ text[7] = QUOTE THEN ParseRoom(text)
              ELSE ParseObject(text)
    ELSE ParseFail

-----------------------------------------------------------------------------
(* The Redis keyspace and the commands the service issues.                 *)

Nil == <<"<nil>">>          \* the reply for a missing key
NoKey == <<>>
NoEntry == [s |-> Nil, exp |-> 0, by |-> "none", orig |-> JsUndefined]

LRU_ACCESS == <<"l", "r", "u", "_", "a", "c", "c", "e", "s", "s">>
LFU_FREQUENCY == <<"l", "f", "u", "_", "f", "r", "e", "q", "u", "e", "n", "c", "y">>
DIRTY_KEYS == <<"d", "i", "r", "t", "y", "_", "k", "e", "y", "s">>
CACHE_HITS == <<"c", "a", "c", "h", "e", "_", "h", "i", "t", "s">>
CACHE_MISSES == <<"c", "a", "c", "h", "e", "_", "m", "i", "s", "s", "e", "s">>

DateNow == clock.sec * 1000 + clock.ms

\* byte value of the characters that occur in keys
CharCode(c) ==
    CASE c = "*" -> 42 [] c = "1" -> 49 [] c = "2" -> 50 [] c = ":" -> 58
      [] c = "?" -> 63 [] c = "A" -> 65 [] c = "B" -> 66 [] c = "C" -> 67 [] c = "D" -> 68
      [] c = "_" -> 95 [] c = "a" -> 97 [] c = "b" -> 98 [] c = "r" -> 114 [] c = "u" -> 117 [] OTHER -> 120

\* memcmp order of two members
RECURSIVE LexLess(_, _)
LexLess(a, b) ==
    IF b = <<>> THEN FALSE
    ELSE IF a = <<>> THEN TRUE
    ELSE IF Head(a) # Head(b) THEN CharCode(Head(a)) < CharCode(Head(b))
    ELSE LexLess(Tail(a), Tail(b))

\* Redis glob matching: * any run of characters, ? any one character
RECURSIVE StringMatch(_, _)
StringMatch(p, s) ==
    IF p = <<>> THEN s = <<>>
    ELSE IF Head(p) = "*"
         THEN StringMatch(Tail(p), s) \/ (s # <<>> /\ StringMatch(p, Tail(s)))
    ELSE IF s = <<>> THEN FALSE
    ELSE IF Head(p) = "?" THEN StringMatch(Tail(p), Tail(s))
    ELSE Head(p) = Head(s) /\ StringMatch(Tail(p), Tail(s))

Remove(m, ks) == [x \in DOMAIN m \ ks |-> m[x]]
Put(m, k, v) == [x \in DOMAIN m \cup {k} |-> IF x = k THEN v ELSE m[x]]

\* GET key
get(m, key) == IF key \in DOMAIN m THEN m[key].s ELSE Nil
Entry(m, key) == IF key \in DOMAIN m THEN m[key] ELSE NoEntry

\* a write that keeps the entry a key already has (SET ... NX)
setEx_IfAbsent(m, key, ttl, text, by, orig) ==
    IF key \in DOMAIN m THEN m
    ELSE Put(m, key, [s |-> text, exp |-> DateNow + ttl * 1000, by |-> by, orig |-> orig])

\* SETEX key seconds text.  by (the strategy that wrote) and orig (the value
\* its caller passed) are annotations the store does not keep.
setEx(m, key, ttl, text, by, orig) ==
    Put(m, key, [s |-> text, exp |-> DateNow + ttl * 1000, by |-> by, orig |-> orig])

\* the client refuses an argument that is not a string, the server a ttl <= 0
setExRejects(ttl, text) == text = NoText \/ ttl <= 0

\* ZADD key score member (upsert), ZREM, ZCARD, ZINCRBY
zAdd(z, score, member) == Put(z, member, score)
zRem(z, member) == Remove(z, {member})
zCard(z) == Cardinality(DOMAIN z)
zIncrBy(z, incr, member) ==
    Put(z, member, (IF member \in DOMAIN z THEN z[member] ELSE 0) + incr)

\* ZRANGE key 0 0: the member of lowest score, ties in memcmp order
zRange00(z) ==
    IF DOMAIN z = {} THEN <<>>
    ELSE <<CHOOSE a \in DOMAIN z :
             \A b \in DOMAIN z \ {a} : z[a] < z[b] \/ (z[a] = z[b] /\ LexLess(a, b))>>

\* every key of the keyspace: a set or sorted set exists while it has members
AllKeys ==
    DOMAIN kv
    \cup (IF DOMAIN lru_access # {} THEN {LRU_ACCESS} ELSE {})
    \cup (IF DOMAIN lfu_frequency # {} THEN {LFU_FREQUENCY} ELSE {})
    \cup (IF dirty_keys # {} THEN {DIRTY_KEYS} ELSE {})
    \cup DOMAIN chat.hashes \cup DOMAIN chat.sets \cup DOMAIN chat.zsets
    \cup DOMAIN chat.nums

\* KEYS that ignores its pattern
keys_All(pattern) == AllKeys

\* KEYS pattern
keys(pattern) == {k \in AllKeys : StringMatch(pattern, k)}

\* the store drops an entry once its expiry time is reached
Unexpired(m, now) == [x \in {y \in DOMAIN m : m[y].exp > now} |-> m[x]]

-----------------------------------------------------------------------------
(* What a call did: the record kept in last.                               *)
(* events lists, in order, the store commands issued ("x!" = it threw),    *)
(* "fetch" / "fetch!" for an invocation of the loader and "persist" /      *)
(* "persist!" for one of persistFn.                                        *)

(* before is the cache entry key had when the call began, fetch the loader *)
(* a read strategy was given.                                              *)

Call(op, key, arg, ttl, ret, threw, events, before) ==
    [op |-> op, key |-> key, arg |-> arg, ttl |-> ttl, ret |-> ret, threw |-> threw,
     events |-> events, before |-> before, fetch |-> <<>>]

NoCall == Call("init", NoKey, JsUndefined, 0, JsUndefined, FALSE, <<>>, NoEntry)

Count(events, e) == Cardinality({i \in 1..Len(events) : events[i] = e})
Issued(events, e) == \E i \in 1..Len(events) : events[i] = e
StoreFailed(events) ==
    \E i \in 1..Len(events) :
        events[i] \in {"get!", "setEx!", "del!", "sAdd!", "sRem!", "zAdd!", "zCard!",
                       "zRange!", "zRem!", "zIncrBy!", "keys!", "info!"}

\* a loader is the outcomes of its successive invocations
Returns(v) == [throws |-> FALSE, v |-> v]
Throws == [throws |-> TRUE, v |-> JsUndefined]

\* the n-th invocation of dataFetcher, made from a catch block or as a
\* return value: its outcome is the call's outcome
Fetched(fetch, n, events, m) ==
    IF fetch[n].throws
    THEN [kv |-> m, ret |-> JsUndefined, threw |-> TRUE, events |-> Append(events, "fetch!")]
    ELSE [kv |-> m, ret |-> fetch[n].v, threw |-> FALSE, events |-> Append(events, "fetch")]

\* if (data) on the reply of GET: null and the empty string are a miss
CacheHit_Inverted(data) == data = Nil \/ data = <<>>
CacheHit(data) == data # Nil /\ data # <<>>

\* cacheAside(key, dataFetcher, ttl); f = the store command that throws
\* (1 get, 2 setEx, 0 none)
cacheAsideRun(m, key, fetch, ttl, f) ==
    IF f = 1 THEN Fetched(fetch, 1, <<"get!">>, m)
    ELSE LET data == get(m, key)
         IN IF CacheHit(data)
            THEN \* cache HIT
                 IF JSONparse(data).ok
                 THEN [kv |-> m, ret |-> JSONparse(data).v, threw |-> FALSE,
                       events |-> <<"get">>]
                 ELSE Fetched(fetch, 1, <<"get">>, m)
            ELSE \* cache MISS
                 IF fetch[1].throws THEN Fetched(fetch, 2, <<"get", "fetch!">>, m)
                 ELSE IF ~Truthy(fetch[1].v)
                      THEN [kv |-> m, ret |-> fetch[1].v, threw |-> FALSE,
                            events |-> <<"get", "fetch">>]
                 ELSE IF f = 2 \/ setExRejects(ttl, JSONstringify(fetch[1].v))
                      THEN Fetched(fetch, 2, <<"get", "fetch", "setEx!">>, m)
                 ELSE [kv |-> setEx(m, key, ttl, JSONstringify(fetch[1].v), "cacheAside",
                                   fetch[1].v),
                       ret |-> fetch[1].v, threw |-> FALSE,
                       events |-> <<"get", "fetch", "setEx">>]

\* readThrough without the fallback: a failed lookup fails the call
readThroughRun_NoFallback(m, key, fetch, ttl, f) ==
    IF f = 1
    THEN [kv |-> m, ret |-> JsUndefined, threw |-> TRUE, events |-> <<"get!">>]
    ELSE cacheAsideRun(m, key, fetch, ttl, f)

\* readThrough(key, dataFetcher, ttl)
readThroughRun(m, key, fetch, ttl, f) ==
    IF f = 1 THEN Fetched(fetch, 1, <<"get!">>, m)
    ELSE LET data == get(m, key)
         IN IF ~CacheHit(data)
            THEN IF fetch[1].throws THEN Fetched(fetch, 2, <<"get", "fetch!">>, m)
                 ELSE IF ~Truthy(fetch[1].v)
                      THEN [kv |-> m, ret |-> fetch[1].v, threw |-> FALSE,
                            events |-> <<"get", "fetch">>]
                 ELSE IF f = 2 \/ setExRejects(ttl, JSONstringify(fetch[1].v))
                      THEN Fetched(fetch, 2, <<"get", "fetch", "setEx!">>, m)
                 ELSE [kv |-> setEx(m, key, ttl, JSONstringify(fetch[1].v), "readThrough",
                                   fetch[1].v),
                       ret |-> fetch[1].v, threw |-> FALSE,
                       events |-> <<"get", "fetch", "setEx">>]
            ELSE IF JSONparse(data).ok
                 THEN [kv |-> m, ret |-> JSONparse(data).v, threw |-> FALSE,
                       events |-> <<"get">>]
                 ELSE Fetched(fetch, 1, <<"get">>, m)

\* persistFn: "throws", "echo" (mockDB.saveUser: stores and returns its
\* argument) or "stamp" (stores and returns a transformed record)
Stamp(v) == JsObj(v.n + 1, v.s)
Persisted(persist, data) == IF persist = "stamp" THEN Stamp(data) ELSE data

\* writeThrough that caches and returns its argument, not what was persisted
writeThroughRun_ReturnsInput(m, db, key, data, persist, ttl, f) ==
    IF persist = "throws"
    THEN [kv |-> m, users |-> db, ret |-> JsUndefined, threw |-> TRUE,
          events |-> <<"persist!">>]
    ELSE IF f = 1 \/ setExRejects(ttl, JSONstringify(data))
    THEN [kv |-> m, users |-> Put(db, key, Persisted(persist, data)),
          ret |-> JsUndefined, threw |-> TRUE, events |-> <<"persist", "setEx!">>]
    ELSE [kv |-> setEx(m, key, ttl, JSONstringify(data), "writeThrough", data),
          users |-> Put(db, key, Persisted(persist, data)), ret |-> data,
          threw |-> FALSE, events |-> <<"persist", "setEx">>]

\* writeThrough with the cache written before the authoritative store
writeThroughRun_CacheFirst(m, db, key, data, persist, ttl, f) ==
    LET m1 == setEx(m, key, ttl, JSONstringify(data), "writeThrough", data)
    IN IF persist = "throws"
       THEN [kv |-> m1, users |-> db, ret |-> JsUndefined, threw |-> TRUE,
             events |-> <<"setEx", "persist!">>]
       ELSE [kv |-> m1, users |-> Put(db, key, Persisted(persist, data)),
             ret |-> Persisted(persist, data), threw |-> FALSE,
             events |-> <<"setEx", "persist">>]

\* writeThrough(key, data, dbWriter, ttl); f: 1 setEx
writeThroughRun(m, db, key, data, persist, ttl, f) ==
    IF persist = "throws"
    THEN [kv |-> m, users |-> db, ret |-> JsUndefined, threw |-> TRUE,
          events |-> <<"persist!">>]
    ELSE LET result == Persisted(persist, data)
             db1 == Put(db, key, result)
         IN IF f = 1 \/ setExRejects(ttl, JSONstringify(result))
            THEN [kv |-> m, users |-> db1, ret |-> JsUndefined, threw |-> TRUE,
                  events |-> <<"persist", "setEx!">>]
            ELSE [kv |-> setEx(m, key, ttl, JSONstringify(result), "writeThrough", data),
                  users |-> db1, ret |-> result, threw |-> FALSE,
                  events |-> <<"persist", "setEx">>]

\* writeAround that forgets the invalidation
writeAroundRun_NoDel(m, db, key, data, persist, f) ==
    IF persist = "throws"
    THEN [kv |-> m, users |-> db, ret |-> JsUndefined, threw |-> TRUE,
          events |-> <<"persist!">>]
    ELSE [kv |-> m, users |-> Put(db, key, Persisted(persist, data)),
          ret |-> Persisted(persist, data), threw |-> FALSE, events |-> <<"persist">>]

\* writeAround(key, data, dbWriter); f: 1 del
writeAroundRun(m, db, key, data, persist, f) ==
    IF persist = "throws"
    THEN [kv |-> m, users |-> db, ret |-> JsUndefined, threw |-> TRUE,
          events |-> <<"persist!">>]
    ELSE LET result == Persisted(persist, data)
             db1 == Put(db, key, result)
         IN IF f = 1
            THEN [kv |-> m, users |-> db1, ret |-> JsUndefined, threw |-> TRUE,
                  events |-> <<"persist", "del!">>]
            ELSE [kv |-> Remove(m, {key}), users |-> db1, ret |-> result,
                  threw |-> FALSE, events |-> <<"persist", "del">>]

\* writeBack that does not mark the key dirty
writeBackRun_NoMark(m, dirty, pending, key, data, ttl, f) ==
    IF f = 1 \/ setExRejects(ttl, JSONstringify(data))
    THEN [kv |-> m, dirty_keys |-> dirty, timers |-> pending, ret |-> JsUndefined,
          threw |-> TRUE, events |-> <<"setEx!">>]
    ELSE [kv |-> setEx(m, key, ttl, JSONstringify(data), "writeBack", data),
          dirty_keys |-> dirty,
          timers |-> Append(pending, [key |-> key, data |-> data,
                                      due |-> DateNow + WriteBackDelay]),
          ret |-> data, threw |-> FALSE, events |-> <<"setEx", "setTimeout">>]

\* writeBack(key, data, dbWriter, ttl); f: 1 setEx, 2 sAdd
writeBackRun(m, dirty, pending, key, data, ttl, f) ==
    IF f = 1 \/ setExRejects(ttl, JSONstringify(data))
    THEN [kv |-> m, dirty_keys |-> dirty, timers |-> pending, ret |-> JsUndefined,
          threw |-> TRUE, events |-> <<"setEx!">>]
    ELSE LET m1 == setEx(m, key, ttl, JSONstringify(data), "writeBack", data)
         IN IF f = 2
            THEN [kv |-> m1, dirty_keys |-> dirty, timers |-> pending,
                  ret |-> JsUndefined, threw |-> TRUE, events |-> <<"setEx", "sAdd!">>]
            ELSE [kv |-> m1, dirty_keys |-> dirty \cup {key},
                  timers |-> Append(pending, [key |-> key, data |-> data,
                                              due |-> DateNow + WriteBackDelay]),
                  ret |-> data, threw |-> FALSE,
                  events |-> <<"setEx", "sAdd", "setTimeout">>]

\* the deferred task that persists but never clears the marker
deferredRun_NoRem(db, dirty, task, persist, f) ==
    IF persist = "throws"
    THEN [users |-> db, dirty_keys |-> dirty, events |-> <<"persist!">>]
    ELSE [users |-> Put(db, task.key, Persisted(persist, task.data)),
          dirty_keys |-> dirty, events |-> <<"persist">>]

\* the setTimeout callback of writeBack; f: 1 sRem
deferredRun(db, dirty, task, persist, f) ==
    IF persist = "throws"
    THEN [users |-> db, dirty_keys |-> dirty, events |-> <<"persist!">>]
    ELSE LET db1 == Put(db, task.key, Persisted(persist, task.data))
         IN IF f = 1
            THEN [users |-> db1, dirty_keys |-> dirty, events |-> <<"persist", "sRem!">>]
            ELSE [users |-> db1, dirty_keys |-> dirty \ {task.key},
                  events |-> <<"persist", "sRem">>]

-----------------------------------------------------------------------------
(* LRU and LFU.  A run gives the new string keys (kv), the new index (z),  *)
(* the return value and the member evicted (NoKey if none).                *)

\* lruGet(key, maxSize); f: 1 get, 2 zAdd
lruGetRun(m, z, key, f) ==
    IF f = 1 THEN [kv |-> m, z |-> z, ret |-> JsNull, events |-> <<"get!">>]
    ELSE LET data == get(m, key)
         IN IF CacheHit(data)
            THEN IF f = 2
                 THEN [kv |-> m, z |-> z, ret |-> JsNull, events |-> <<"get", "zAdd!">>]
                 ELSE [kv |-> m, z |-> zAdd(z, DateNow, key),
                       ret |-> IF JSONparse(data).ok THEN JSONparse(data).v ELSE JsNull,
                       events |-> <<"get", "zAdd">>]
            ELSE [kv |-> m, z |-> z, ret |-> JsNull, events |-> <<"get">>]

\* an eviction that empties a full index instead of removing one member
evictRun_All(m, z, maxSize, f) ==
    IF zCard(z) >= maxSize /\ DOMAIN z # {}
    THEN [kv |-> Remove(m, DOMAIN z), z |-> Remove(z, DOMAIN z), ok |-> TRUE,
          evicted |-> zRange00(z)[1], events |-> <<"zCard", "zRange", "del", "zRem">>]
    ELSE [kv |-> m, z |-> z, ok |-> TRUE, evicted |-> NoKey, events |-> <<"zCard">>]

\* the capacity check and eviction that open lruSet and lfuSet;
\* f: 1 zCard, 2 zRange, 3 del, 4 zRem
evictRun(m, z, maxSize, f) ==
    IF f = 1 THEN [kv |-> m, z |-> z, ok |-> FALSE, evicted |-> NoKey,
                   events |-> <<"zCard!">>]
    ELSE IF zCard(z) >= maxSize
    THEN IF f = 2 THEN [kv |-> m, z |-> z, ok |-> FALSE, evicted |-> NoKey,
                        events |-> <<"zCard", "zRange!">>]
         ELSE LET oldKeys == zRange00(z)
              IN IF Len(oldKeys) > 0
                 THEN IF f = 3
                      THEN [kv |-> m, z |-> z, ok |-> FALSE, evicted |-> NoKey,
                            events |-> <<"zCard", "zRange", "del!">>]
                      ELSE IF f = 4
                      THEN [kv |-> Remove(m, {oldKeys[1]}), z |-> z, ok |-> FALSE,
                            evicted |-> NoKey,
                            events |-> <<"zCard", "zRange", "del", "zRem!">>]
                      ELSE [kv |-> Remove(m, {oldKeys[1]}), z |-> zRem(z, oldKeys[1]),
                            ok |-> TRUE, evicted |-> oldKeys[1],
                            events |-> <<"zCard", "zRange", "del", "zRem">>]
                 ELSE [kv |-> m, z |-> z, ok |-> TRUE, evicted |-> NoKey,
                       events |-> <<"zCard", "zRange">>]
    ELSE [kv |-> m, z |-> z, ok |-> TRUE, evicted |-> NoKey, events |-> <<"zCard">>]

\* the insert that closes lruSet and lfuSet; f: 5 setEx, 6 zAdd
insertRun(e, key, data, ttl, score, by, f) ==
    IF ~e.ok THEN [kv |-> e.kv, z |-> e.z, ret |-> JsBool(FALSE), evicted |-> e.evicted,
                   events |-> e.events]
    ELSE IF f = 5 \/ setExRejects(ttl, JSONstringify(data))
    THEN [kv |-> e.kv, z |-> e.z, ret |-> JsBool(FALSE), evicted |-> e.evicted,
          events |-> Append(e.events, "setEx!")]
    ELSE LET m1 == setEx(e.kv, key, ttl, JSONstringify(data), by, data)
         IN IF f = 6
            THEN [kv |-> m1, z |-> e.z, ret |-> JsBool(FALSE), evicted |-> e.evicted,
                  events |-> e.events \o <<"setEx", "zAdd!">>]
            ELSE [kv |-> m1, z |-> zAdd(e.z, score, key), ret |-> JsBool(TRUE),
                  evicted |-> e.evicted, events |-> e.events \o <<"setEx", "zAdd">>]

\* lruSet(key, data, ttl, maxSize)
lruSetRun(m, z, key, data, ttl, maxSize, f) ==
    insertRun(evictRun(m, z, maxSize, f), key, data, ttl, DateNow, "lru", f)

\* lfuGet that reads without counting the access
lfuGetRun_NoCount(m, z, key, f) ==
    [kv |-> m, z |-> z,
     ret |-> IF CacheHit(get(m, key)) /\ JSONparse(get(m, key)).ok
             THEN JSONparse(get(m, key)).v ELSE JsNull,
     events |-> <<"get">>]

\* lfuGet(key); f: 1 get, 2 zIncrBy
lfuGetRun(m, z, key, f) ==
    IF f = 1 THEN [kv |-> m, z |-> z, ret |-> JsNull, events |-> <<"get!">>]
    ELSE LET data == get(m, key)
         IN IF CacheHit(data)
            THEN IF f = 2
                 THEN [kv |-> m, z |-> z, ret |-> JsNull, events |-> <<"get", "zIncrBy!">>]
                 ELSE [kv |-> m, z |-> zIncrBy(z, 1, key),
                       ret |-> IF JSONparse(data).ok THEN JSONparse(data).v ELSE JsNull,
                       events |-> <<"get", "zIncrBy">>]
            ELSE [kv |-> m, z |-> z, ret |-> JsNull, events |-> <<"get">>]

\* lfuSet(key, data, ttl, maxSize)
lfuSetRun(m, z, key, data, ttl, maxSize, f) ==
    insertRun(evictRun(m, z, maxSize, f), key, data, ttl, 1, "lfu", f)

-----------------------------------------------------------------------------
(* invalidate(pattern); f: 1 keys, 2 del                                   *)

invalidateRun(pattern, f) ==
    IF f = 1 THEN [deleted |-> {}, ret |-> JsNum(0), events |-> <<"keys!">>]
    ELSE LET ks == keys(pattern)
         IN IF Cardinality(ks) > 0
            THEN IF f = 2
                 THEN [deleted |-> {}, ret |-> JsNum(0), events |-> <<"keys", "del!">>]
                 ELSE [deleted |-> ks, ret |-> JsNum(Cardinality(ks)),
                       events |-> <<"keys", "del">>]
            ELSE [deleted |-> {}, ret |-> JsNum(0), events |-> <<"keys">>]

\* set(key, value, ttl), the plain setter; f: 1 setEx
setRun(m, key, value, ttl, f) ==
    IF f = 1 \/ setExRejects(ttl, JSONstringify(value))
    THEN [kv |-> m, ret |-> JsBool(FALSE), events |-> <<"setEx!">>]
    ELSE [kv |-> setEx(m, key, ttl, JSONstringify(value), "set", value),
          ret |-> JsBool(TRUE), events |-> <<"setEx">>]

\* data || 0 on the reply of GET
OrZero(data) == IF CacheHit(data) THEN JsStr(data) ELSE JsNum(0)

\* getStats(); f: 1 info, 2 get cache_hits, 3 get cache_misses,
\* 4 zCard lru_access, 5 zCard lfu_frequency
getStatsRun(m, lru, lfu, f) ==
    IF f \in 1..5
    THEN [ret |-> JsEmpty,
          events |-> SubSeq(<<"info", "get", "get", "zCard", "zCard">>, 1, f - 1)
                     \o <<<<"info!", "get!", "get!", "zCard!", "zCard!">>[f]>>]
    ELSE [ret |-> JsStats(OrZero(get(m, CACHE_HITS)), OrZero(get(m, CACHE_MISSES)),
                          JsNum(zCard(lru)), JsNum(zCard(lfu))),
          events |-> <<"info", "get", "get", "zCard", "zCard">>]

-----------------------------------------------------------------------------
(* The operations, each one completed call.                                *)

Empty == [x \in {} |-> 0]

Init ==
    /\ kv = Empty
    /\ lru_access = Empty
    /\ lfu_frequency = Empty
    /\ dirty_keys = {}
    /\ users = Empty
    /\ timers = <<>>
    /\ clock = [sec |-> 0, ms |-> 0]
    /\ last = NoCall
    /\ hist = <<>>
    /\ inflight = <<>>
    /\ chat = [hashes |-> Empty, sets |-> Empty, zsets |-> Empty, nums |-> Empty]
    /\ calls = <<>>

CacheAside(key, fetch, ttl, f) ==
    LET r == cacheAsideRun(kv, key, fetch, ttl, f)
    IN /\ kv' = r.kv
       /\ last' = [Call("cacheAside", key, JsUndefined, ttl, r.ret, r.threw, r.events,
                        Entry(kv, key)) EXCEPT !.fetch = fetch]
       /\ UNCHANGED <<lru_access, lfu_frequency, dirty_keys, users, timers, clock, hist, inflight, chat, calls>>

ReadThrough(key, fetch, ttl, f) ==
    LET r == readThroughRun(kv, key, fetch, ttl, f)
    IN /\ kv' = r.kv
       /\ last' = [Call("readThrough", key, JsUndefined, ttl, r.ret, r.threw, r.events,
                        Entry(kv, key)) EXCEPT !.fetch = fetch]
       /\ UNCHANGED <<lru_access, lfu_frequency, dirty_keys, users, timers, clock, hist, inflight, chat, calls>>

WriteThrough(key, data, persist, ttl, f) ==
    LET r == writeThroughRun(kv, users, key, data, persist, ttl, f)
    IN /\ kv' = r.kv
       /\ users' = r.users
       /\ last' = Call("writeThrough", key, data, ttl, r.ret, r.threw, r.events,
                       Entry(kv, key))
       /\ UNCHANGED <<lru_access, lfu_frequency, dirty_keys, timers, clock, hist, inflight, chat, calls>>

WriteAround(key, data, persist, f) ==
    LET r == writeAroundRun(kv, users, key, data, persist, f)
    IN /\ kv' = r.kv
       /\ users' = r.users
       /\ last' = Call("writeAround", key, data, 0, r.ret, r.threw, r.events,
                       Entry(kv, key))
       /\ UNCHANGED <<lru_access, lfu_frequency, dirty_keys, timers, clock, hist, inflight, chat, calls>>

WriteBack(key, data, ttl, f) ==
    LET r == writeBackRun(kv, dirty_keys, timers, key, data, ttl, f)
    IN /\ Len(timers) < MaxTimers
       /\ kv' = r.kv
       /\ dirty_keys' = r.dirty_keys
       /\ timers' = r.timers
       /\ last' = Call("writeBack", key, data, ttl, r.ret, r.threw, r.events,
                       Entry(kv, key))
       /\ UNCHANGED <<lru_access, lfu_frequency, users, clock, hist, inflight, chat, calls>>

\* the oldest pending timer fires once its delay has elapsed
DeferredPersist(persist, f) ==
    /\ timers # <<>>
    /\ DateNow >= Head(timers).due
    /\ LET r == deferredRun(users, dirty_keys, Head(timers), persist, f)
       IN /\ users' = r.users
          /\ dirty_keys' = r.dirty_keys
          /\ last' = Call("deferred", Head(timers).key, Head(timers).data, 0,
                          JsUndefined, FALSE, r.events, Entry(kv, Head(timers).key))
    /\ timers' = Tail(timers)
    /\ UNCHANGED <<kv, lru_access, lfu_frequency, clock, hist, inflight, chat, calls>>

Logged(op, key, maxSize, ret) == [op |-> op, key |-> key, maxSize |-> maxSize, ret |-> ret]

LruGet(key, maxSize, f) ==
    LET r == lruGetRun(kv, lru_access, key, f)
    IN /\ Len(hist) < MaxLruOps
       /\ kv' = r.kv
       /\ lru_access' = r.z
       /\ last' = Call("lruGet", key, JsUndefined, 0, r.ret, FALSE, r.events,
                       Entry(kv, key))
       /\ hist' = Append(hist, Logged("lruGet", key, maxSize, r.ret))
       /\ UNCHANGED <<lfu_frequency, dirty_keys, users, timers, clock, inflight, chat, calls>>

LruSet(key, data, ttl, maxSize, f) ==
    LET r == lruSetRun(kv, lru_access, key, data, ttl, maxSize, f)
    IN /\ Len(hist) < MaxLruOps
       /\ kv' = r.kv
       /\ lru_access' = r.z
       /\ last' = Call("lruSet", key, data, ttl, r.ret, FALSE, r.events, Entry(kv, key))
       /\ hist' = Append(hist, Logged("lruSet", key, maxSize, r.ret))
       /\ UNCHANGED <<lfu_frequency, dirty_keys, users, timers, clock, inflight, chat, calls>>

\* a lruSet call overlapping others: it runs its capacity check and eviction
\* and is suspended at the await before its setEx ...
LruSetBegin(key, data, ttl, maxSize) ==
    LET e == evictRun(kv, lru_access, maxSize, 0)
    IN /\ Len(inflight) < MaxInflight
       /\ Len(hist) + Len(inflight) < MaxLruOps
       /\ kv' = e.kv
       /\ lru_access' = e.z
       /\ inflight' = Append(inflight, [key |-> key, data |-> data, ttl |-> ttl,
                                        maxSize |-> maxSize, ok |-> e.ok,
                                        evicted |-> e.evicted, events |-> e.events])
       /\ UNCHANGED <<lfu_frequency, dirty_keys, users, timers, clock, last, hist, chat, calls>>

\* ... and resumes, in any order among the suspended calls, with its setEx and
\* zAdd on the store as it is by then
LruSetEnd(i) ==
    /\ i \in 1..Len(inflight)
    /\ LET c == inflight[i]
           e == [kv |-> kv, z |-> lru_access, ok |-> c.ok, evicted |-> c.evicted,
                 events |-> c.events]
           r == insertRun(e, c.key, c.data, c.ttl, DateNow, "lru", 0)
       IN /\ kv' = r.kv
          /\ lru_access' = r.z
          /\ last' = Call("lruSet", c.key, c.data, c.ttl, r.ret, FALSE, r.events,
                          Entry(kv, c.key))
          /\ hist' = Append(hist, Logged("lruSet overlapping", c.key, c.maxSize, r.ret))
    /\ inflight' = SubSeq(inflight, 1, i - 1) \o SubSeq(inflight, i + 1, Len(inflight))
    /\ UNCHANGED <<lfu_frequency, dirty_keys, users, timers, clock, chat, calls>>

LfuGet(key, f) ==
    LET r == lfuGetRun(kv, lfu_frequency, key, f)
    IN /\ Len(hist) < MaxLfuOps
       /\ kv' = r.kv
       /\ lfu_frequency' = r.z
       /\ last' = Call("lfuGet", key, JsUndefined, 0, r.ret, FALSE, r.events,
                       Entry(kv, key))
       /\ hist' = Append(hist, Logged("lfuGet", key, 0, r.ret))
       /\ UNCHANGED <<lru_access, dirty_keys, users, timers, clock, inflight, chat, calls>>

LfuSet(key, data, ttl, maxSize, f) ==
    LET r == lfuSetRun(kv, lfu_frequency, key, data, ttl, maxSize, f)
    IN /\ Len(hist) < MaxLfuOps
       /\ kv' = r.kv
       /\ lfu_frequency' = r.z
       /\ last' = Call("lfuSet", key, data, ttl, r.ret, FALSE, r.events, Entry(kv, key))
       /\ hist' = Append(hist, Logged("lfuSet", key, maxSize, r.ret))
       /\ UNCHANGED <<lru_access, dirty_keys, users, timers, clock, inflight, chat, calls>>

Invalidate(pattern, f) ==
    LET r == invalidateRun(pattern, f)
    IN /\ kv' = Remove(kv, r.deleted)
       /\ lru_access' = IF LRU_ACCESS \in r.deleted THEN Empty ELSE lru_access
       /\ lfu_frequency' = IF LFU_FREQUENCY \in r.deleted THEN Empty ELSE lfu_frequency
       /\ dirty_keys' = IF DIRTY_KEYS \in r.deleted THEN {} ELSE dirty_keys
       /\ last' = Call("invalidate", pattern, JsUndefined, 0, r.ret, FALSE, r.events,
                       NoEntry)
       /\ chat' = [hashes |-> Remove(chat.hashes, r.deleted),
                   sets |-> Remove(chat.sets, r.deleted),
                   zsets |-> Remove(chat.zsets, r.deleted),
                   nums |-> Remove(chat.nums, r.deleted)]
       /\ UNCHANGED <<users, timers, clock, hist, inflight, calls>>

Set(key, value, ttl, f) ==
    LET r == setRun(kv, key, value, ttl, f)
    IN /\ kv' = r.kv
       /\ last' = Call("set", key, value, ttl, r.ret, FALSE, r.events, Entry(kv, key))
       /\ UNCHANGED <<lru_access, lfu_frequency, dirty_keys, users, timers, clock, hist, inflight, chat, calls>>

GetStats(f) ==
    LET r == getStatsRun(kv, lru_access, lfu_frequency, f)
    IN /\ last' = Call("getStats", NoKey, JsUndefined, 0, r.ret, FALSE, r.events, NoEntry)
       /\ UNCHANGED <<kv, lru_access, lfu_frequency, dirty_keys, users, timers, clock,
                      hist, inflight, chat, calls>>

\* time passes: one millisecond, or on to the start of the next second;
\* the store drops what has expired by then
Tick(c) ==
    /\ clock' = c
    /\ kv' = Unexpired(kv, c.sec * 1000 + c.ms)
    /\ last' = Call("tick", NoKey, JsUndefined, 0, JsUndefined, FALSE, <<>>, NoEntry)
    /\ UNCHANGED <<lru_access, lfu_frequency, dirty_keys, users, timers, hist, inflight, chat, calls>>

TickMs == clock.ms < MaxMs /\ Tick([clock EXCEPT !.ms = clock.ms + 1])
TickSec == clock.sec < MaxSec /\ Tick([sec |-> clock.sec + 1, ms |-> 0])

-----------------------------------------------------------------------------
(* Inputs.                                                                 *)

U1 == <<"u", ":", "1">>
U2 == <<"u", ":", "2">>
R1 == <<"r", ":", "1">>
KA == <<"A">>
KB == <<"B">>
KC == <<"C">>
KD == <<"D">>

Jan == JsObj(1, <<"J">>)
Anna == JsObj(2, <<"A">>)

\* loaders: what the first and the second invocation do
Outcomes(vals) == {Throws} \cup {Returns(v) : v \in vals}
Loaders(vals) == {<<a, b>> : a \in Outcomes(vals), b \in Outcomes(vals)}
Steady(vals) == {<<a, a>> : a \in Outcomes(vals)}

PersistFns == {"throws", "echo", "stamp"}

-----------------------------------------------------------------------------
(* The read strategies on their own: cacheAside and readThrough with every *)
(* loader outcome and store failure, and the passage of time.              *)

NextRead ==
    \/ \E key \in {U1, U2}, fetch \in Loaders({JsNum(0), Jan}), f \in 0..2 :
           CacheAside(key, fetch, 1, f)
    \/ \E key \in {U1, U2}, fetch \in Loaders({JsNum(0), Jan}), f \in 0..2 :
           ReadThrough(key, fetch, 1, f)
    \/ TickSec

SpecRead == Init /\ [][NextRead]_vars

-----------------------------------------------------------------------------
(* Properties of the read strategies.                                      *)

Fetches(c) == Count(c.events, "fetch") + Count(c.events, "fetch!")

\* c is a cacheAside call that missed and whose loader, invoked once,
\* returned a value, with no store command failing
MissFilled(c) ==
    /\ c.op = "cacheAside"
    /\ c.before = NoEntry
    /\ ~c.threw
    /\ c.events \in {<<"get", "fetch">>, <<"get", "fetch", "setEx">>}

\* d is the next call, a cacheAside on the same key with the store reachable
SecondCall(c, d) ==
    /\ d.op = "cacheAside"
    /\ d.key = c.key
    /\ ~StoreFailed(d.events)

\* C1 as amended: after a cacheAside miss on k whose loader returned a truthy
\* value v, the next cacheAside call on k, made with no expiry, invalidation
\* or store failure in between, returns v and does not invoke its loader.
C1_SecondCallServedFromCache ==
    [][(MissFilled(last) /\ Truthy(last.ret) /\ SecondCall(last, last'))
        => (last'.ret = last.ret /\ ~last'.threw /\ Fetches(last') = 0)]_vars

\* C1 as stated: the same for every value v the loader returned.
C1_AnyValueServedFromCache ==
    [][(MissFilled(last) /\ SecondCall(last, last'))
        => (last'.ret = last.ret /\ ~last'.threw /\ Fetches(last') = 0)]_vars

\* a cacheAside call whose loader would have thrown was served the entry an
\* earlier cacheAside miss had filled
C1_Witness ==
    /\ last.op = "cacheAside"
    /\ last.fetch[1] = Throws
    /\ last.before.by = "cacheAside"
    /\ last.events = <<"get">>
    /\ last.ret = Jan

-----------------------------------------------------------------------------
(* The write strategies that persist first, with cacheAside as the reader. *)

NextWrite ==
    \/ \E key \in {U1, U2}, persist \in PersistFns, ttl \in {1, 2}, f \in 0..1 :
           WriteThrough(key, Jan, persist, ttl, f)
    \/ \E key \in {U1, U2}, persist \in PersistFns, f \in 0..1 :
           WriteAround(key, Anna, persist, f)
    \/ \E key \in {U1, U2}, fetch \in Steady({Jan}), f \in 0..2 :
           CacheAside(key, fetch, 1, f)

SpecWrite == Init /\ [][NextWrite]_vars

PersistFailed(c) == Issued(c.events, "persist!")

\* C2 as amended: if persistFn fails during writeThrough, the call leaves the
\* cache entry of key as it was before the call; in particular the cache holds
\* no value for key afterwards if it held none before.
C2_FailedWriteThroughLeavesEntry ==
    (last.op = "writeThrough" /\ PersistFailed(last))
        => Entry(kv, last.key) = last.before

\* C2 as stated: whatever the cache held before, after a writeThrough whose
\* persistFn failed the cache contains no value for key.
C2_FailedWriteThroughLeavesNoValue ==
    (last.op = "writeThrough" /\ PersistFailed(last)) => get(kv, last.key) = Nil

\* a writeThrough whose persistFn failed, on a key that was cached before
C2_Witness ==
    /\ last.op = "writeThrough"
    /\ PersistFailed(last)
    /\ last.before # NoEntry
    /\ get(kv, last.key) = JSONstringify(Jan)

C4_WriteAroundThenMiss ==
    [][/\ (last'.op = "writeAround" /\ ~last'.threw) => get(kv', last'.key) = Nil
       /\ (last.op = "writeAround" /\ ~last.threw
           /\ last'.op = "cacheAside" /\ last'.key = last.key)
              => (last'.before = NoEntry /\ Fetches(last') >= 1
                  /\ last'.events # <<"get">>)]_vars

\* a successful writeAround on a key that was cached before
C4_Witness ==
    /\ last.op = "writeAround"
    /\ ~last.threw
    /\ last.before # NoEntry
    /\ last.key \notin DOMAIN kv

-----------------------------------------------------------------------------
(* One sequential caller of the LRU policy, while milliseconds pass.       *)

NextLru ==
    \/ \E key \in {KA, KB, KC}, maxSize \in {1, 2} : LruSet(key, Jan, 1, maxSize, 0)
    \/ \E key \in {KA, KB, KC} : LruGet(key, 2, 0)
    \/ TickMs

SpecLru == Init /\ [][NextLru]_vars

\* the calls made so far are exactly those of script, in order
Ran(script) ==
    /\ Len(hist) = Len(script)
    /\ \A i \in 1..Len(script) :
           /\ hist[i].op = script[i][1]
           /\ hist[i].key = script[i][2]
           /\ script[i][1] \in {"lruSet", "lfuSet"} => hist[i].maxSize = script[i][3]

Distinct(ks) == \A i, j \in 1..Len(ks) : i # j => ks[i] # ks[j]
Retrievable(key) == CacheHit(get(kv, key))

\* C5: from an empty LRU index, after maxSize + 1 lruSet calls on distinct
\* keys with the same maxSize, exactly maxSize of the keys are retrievable and
\* the one that is not is the least recently touched one, the first inserted.
C5_LruBound ==
    \A n \in {1, 2} : \A ks \in [1..(n + 1) -> {KA, KB, KC}] :
        (Distinct(ks) /\ Ran([i \in 1..(n + 1) |-> <<"lruSet", ks[i], n>>]))
            => /\ Cardinality({i \in 1..(n + 1) : Retrievable(ks[i])}) = n
               /\ ~Retrievable(ks[1])

\* C6: with maxSize 2, after lruSet(A), lruSet(B), lruGet(A), lruSet(C) the
\* key B is evicted and A and C are still cached and indexed.
C6_LruRecency ==
    Ran(<<<<"lruSet", KA, 2>>, <<"lruSet", KB, 2>>, <<"lruGet", KA, 2>>,
          <<"lruSet", KC, 2>>>>)
        => /\ ~Retrievable(KB)
           /\ KB \notin DOMAIN lru_access
           /\ Retrievable(KA) /\ Retrievable(KC)
           /\ {KA, KC} \subseteq DOMAIN lru_access

-----------------------------------------------------------------------------
(* One sequential caller of the LFU policy.                                *)

NextLfu ==
    \/ \E key \in {KA, KB, KC} : LfuSet(key, Jan, 1, 2, 0)
    \/ \E key \in {KA, KB, KC} : LfuGet(key, 0)

SpecLfu == Init /\ [][NextLfu]_vars

LfuScript ==
    <<<<"lfuSet", KA, 2>>, <<"lfuSet", KB, 2>>, <<"lfuGet", KA, 0>>,
      <<"lfuGet", KA, 0>>, <<"lfuGet", KA, 0>>, <<"lfuSet", KC, 2>>>>

\* C7: with maxSize 2, after lfuSet(A), lfuSet(B) and three lfuGet(A), a
\* lfuSet(C) evicts B: its cache entry and index record are gone, A and C
\* are cached and indexed.
C7_LfuEvictsLeastFrequent ==
    Ran(LfuScript)
        => /\ ~Retrievable(KB)
           /\ KB \notin DOMAIN lfu_frequency
           /\ Retrievable(KA) /\ Retrievable(KC)
           /\ DOMAIN lfu_frequency = {KA, KC}

\* the script has run: A has been counted four times, C once
C7_Witness ==
    /\ Ran(LfuScript)
    /\ lfu_frequency[KA] = 4
    /\ lfu_frequency[KC] = 1
    /\ last.op = "lfuSet" /\ last.ret = JsBool(TRUE)

-----------------------------------------------------------------------------
(* Pattern invalidation over a keyspace filled by the plain setter, the    *)
(* LRU policy (which adds the key lru_access) and write-back (dirty_keys). *)

Patterns ==
    {<<"u", ":", "*">>, <<"*">>, <<"u", ":", "1">>, <<"?", ":", "1">>, <<"l", "*">>,
     <<"x", "*">>}

NextInvalidate ==
    \/ \E key \in {U1, U2, R1} : Set(key, Jan, 1, 0)
    \/ LruSet(R1, Anna, 1, 2, 0)
    \/ WriteBack(U2, Anna, 1, 0)
    \/ \E pattern \in Patterns, f \in 0..2 : Invalidate(pattern, f)

SpecInvalidate == Init /\ [][NextInvalidate]_vars

\* C8: invalidate(pattern) never raises; with the store reachable it deletes
\* exactly the keys matching pattern and leaves every other key as it was; it
\* returns the number of keys it removed, 0 when nothing matches; and a second
\* invalidate(pattern) directly after it returns 0.
C8_InvalidateExact ==
    [][last'.op = "invalidate" =>
        /\ ~last'.threw
        /\ last'.ret = JsNum(Cardinality(AllKeys) - Cardinality(AllKeys'))
        /\ AllKeys' \subseteq AllKeys
        /\ ~StoreFailed(last'.events) =>
               /\ AllKeys' = {k \in AllKeys : ~StringMatch(last'.key, k)}
               /\ \A k \in DOMAIN kv' : kv'[k] = kv[k]
               /\ LRU_ACCESS \in AllKeys' => lru_access' = lru_access
               /\ DIRTY_KEYS \in AllKeys' => dirty_keys' = dirty_keys
        /\ (\A k \in AllKeys : ~StringMatch(last'.key, k)) => last'.ret = JsNum(0)
        /\ (last.op = "invalidate" /\ last.key = last'.key /\ ~StoreFailed(last.events))
               => last'.ret = JsNum(0)]_vars

\* an invalidate removed the two user keys and left the others
C8_Witness ==
    /\ last.op = "invalidate"
    /\ last.key = <<"u", ":", "*">>
    /\ last.ret = JsNum(2)
    /\ AllKeys = {R1, LRU_ACCESS, DIRTY_KEYS}

-----------------------------------------------------------------------------
(* Every strategy that writes the cache, with every kind of JSON value,    *)
(* and every strategy that reads it back.                                  *)

JsonValues ==
    {JsNull, JsBool(TRUE), JsBool(FALSE), JsNum(0), JsNum(7), JsNum(10), JsStr(<<>>),
     JsStr(<<"a", QUOTE, BACKSLASH>>), Jan}

\* nothing has been written yet
Fresh == kv = Empty /\ users = Empty /\ timers = <<>> /\ hist = <<>>

\* a key is written once, by any strategy, and then read by any
NextRoundTrip ==
    \/ \E v \in JsonValues, persist \in {"echo", "stamp"} :
           Fresh /\ WriteThrough(U1, v, persist, 1, 0)
    \/ \E v \in JsonValues : Fresh /\ WriteBack(U1, v, 1, 0)
    \/ \E v \in JsonValues : Fresh /\ LruSet(U1, v, 1, 2, 0)
    \/ \E v \in JsonValues : Fresh /\ LfuSet(U1, v, 1, 2, 0)
    \/ \E v \in JsonValues : Fresh /\ CacheAside(U1, <<Returns(v), Returns(v)>>, 1, 0)
    \/ \E v \in JsonValues : Fresh /\ ReadThrough(U1, <<Returns(v), Returns(v)>>, 1, 0)
    \/ CacheAside(U1, <<Throws, Throws>>, 1, 0)
    \/ ReadThrough(U1, <<Throws, Throws>>, 1, 0)
    \/ Len(hist) < MaxPolicyOps /\ LruGet(U1, 2, 0)
    \/ Len(hist) < MaxPolicyOps /\ LfuGet(U1, 0)

SpecRoundTrip == Init /\ [][NextRoundTrip]_vars

\* c is a read that was served from the cache
ReadHit(c) ==
    \/ c.op \in {"cacheAside", "readThrough"} /\ c.events = <<"get">>
    \/ c.op = "lruGet" /\ c.events = <<"get", "zAdd">>
    \/ c.op = "lfuGet" /\ c.events = <<"get", "zIncrBy">>

\* C9 as amended: a cache hit returns a value equal to the one the writing
\* strategy was given (writeBack, lruSet, lfuSet, the fill of cacheAside and
\* readThrough), and for writeThrough equal to the value persistFn returned,
\* which is the caller's value when persistFn returns its argument.
C9_HitReturnsWhatWasStored ==
    ReadHit(last) =>
        /\ JSONstringify(last.ret) = last.before.s
        /\ last.before.by # "writeThrough" => last.ret = last.before.orig
        /\ last.before.by = "writeThrough" => last.ret = users[last.key]

\* C9 as stated: for every write strategy a cache hit returns the value the
\* caller passed in.
C9_HitReturnsCallersValue == ReadHit(last) => last.ret = last.before.orig

\* a string with a quote and a backslash came back from a write-back entry
C9_Witness ==
    /\ ReadHit(last)
    /\ last.op = "lruGet"
    /\ last.before.by = "writeBack"
    /\ last.ret = JsStr(<<"a", QUOTE, BACKSLASH>>)

-----------------------------------------------------------------------------
(* Both policies together with invalidation, a strategy write and expiry,  *)
(* every call completing without a store failure.                          *)

NextIndex ==
    \/ \E key \in {KA, KB} : Len(hist) < MaxPolicyOps /\ LruSet(key, Jan, 1, 2, 0)
    \/ \E key \in {KA, KB} : Len(hist) < MaxPolicyOps /\ LruGet(key, 2, 0)
    \/ \E key \in {KA, KB} : Len(hist) < MaxPolicyOps /\ LfuSet(key, Jan, 1, 2, 0)
    \/ \E key \in {KA, KB} : Len(hist) < MaxPolicyOps /\ LfuGet(key, 0)
    \/ \E pattern \in {<<"A">>, <<"*">>} : Invalidate(pattern, 0)
    \/ WriteThrough(KA, Anna, "echo", 1, 0)
    \/ TickSec

SpecIndex == Init /\ [][NextIndex]_vars

\* C10: after successfully completed operations a key has a record in a
\* policy's index if and only if a cache entry written under that policy
\* exists for it.
C10_IndexMatchesCache ==
    \A k \in {KA, KB} :
        /\ k \in DOMAIN lru_access <=> (k \in DOMAIN kv /\ kv[k].by = "lru")
        /\ k \in DOMAIN lfu_frequency <=> (k \in DOMAIN kv /\ kv[k].by = "lfu")

-----------------------------------------------------------------------------
(* The loader's value and the outcome of a cacheAside call.                *)

\* C16: whenever an invocation of the loader made by a cacheAside call has
\* produced a value v, the call returns v, whatever the cache lookup and the
\* cache write did.
C16_LoaderValueReturned ==
    last.op = "cacheAside" =>
        \A i \in 1..Fetches(last) :
            ~last.fetch[i].throws => (~last.threw /\ last.ret = last.fetch[i].v)

-----------------------------------------------------------------------------
(* cacheAside against readThrough, as functions of the store state.        *)

\* an entry some other client of the store wrote under key: any text
Foreign(m, key, text) ==
    Put(m, key, [s |-> text, exp |-> DateNow + 1000, by |-> "foreign", orig |-> JsUndefined])

RawTexts == {<<>>, <<"x">>, <<"{">>, <<"0", "1">>, <<QUOTE, "a">>}

\* the entries as the store keeps them
Stored(m) == [k \in DOMAIN m |-> [s |-> m[k].s, exp |-> m[k].exp]]

\* two runs a caller cannot tell apart: same result or failure, the same
\* loader invocations and store commands, the same store afterwards
SameRun(a, b) ==
    /\ a.ret = b.ret
    /\ a.threw = b.threw
    /\ a.events = b.events
    /\ Stored(a.kv) = Stored(b.kv)

\* C17: on the same store state (as reached, or holding any text under the
\* key), with the same key, loader behaviour, ttl and store failure,
\* cacheAside and readThrough return the same result or the same failure,
\* invoke the loader the same number of times and leave the same store.
C17_ReadThroughIsCacheAside ==
    \A key \in {U1, U2}, fetch \in Loaders({JsNum(0), Jan}), ttl \in {0, 1}, f \in 0..2 :
        \A m \in {kv} \cup {Foreign(kv, key, text) : text \in RawTexts} :
            SameRun(cacheAsideRun(m, key, fetch, ttl, f),
                    readThroughRun(m, key, fetch, ttl, f))

\* a readThrough call was served an entry that cacheAside had filled, as a
\* cacheAside call in its place would be; with the store unreachable both
\* fall back to the loader
C17_Witness ==
    /\ last.op = "readThrough" /\ last.events = <<"get">>
    /\ last.before.by = "cacheAside"
    /\ last.ret = Jan
    /\ cacheAsideRun(kv, last.key, <<Throws, Throws>>, 1, 0).ret = Jan
    /\ readThroughRun(kv, last.key, <<Returns(JsNum(0)), Throws>>, 1, 1).events
           = <<"get!", "fetch">>

-----------------------------------------------------------------------------
(* lruGet on a key that is cached but has no record in the LRU index.      *)

\* C11: a lruGet that finds a cache entry for a key with no record in the
\* LRU index returns the value and leaves the index membership unchanged.
C11_GetLeavesIndexMembership ==
    [][(/\ last'.op = "lruGet"
        /\ ~StoreFailed(last'.events)
        /\ CacheHit(get(kv, last'.key))
        /\ last'.key \notin DOMAIN lru_access)
        => (/\ last'.ret = JSONparse(get(kv, last'.key)).v
            /\ DOMAIN lru_access' = DOMAIN lru_access)]_vars

-----------------------------------------------------------------------------
(* Write-back: overlapping writeBack calls on one key, their deferred      *)
(* tasks succeeding or failing independently, and the passage of time.     *)

NextWriteBack ==
    \/ \E data \in {Jan, Anna}, f \in 0..2 : WriteBack(U1, data, 2, f)
    \/ \E persist \in PersistFns, f \in 0..1 : DeferredPersist(persist, f)
    \/ TickSec

SpecWriteBack == Init /\ [][NextWriteBack]_vars

\* the task a writeBack call that began in the current state schedules
Scheduled(c) == [key |-> c.key, data |-> c.arg, due |-> DateNow + WriteBackDelay]

\* C12: when writeBack returns successfully the cache holds the value under
\* the key with expiry ttl, the key is in the dirty set, the call returned the
\* value, and persistFn has not been invoked: the authoritative store is
\* untouched and the task is pending, to run once its delay has elapsed.
C12_WriteBackReturnsBeforePersist ==
    [][/\ (last'.op = "writeBack" /\ ~last'.threw) =>
            /\ get(kv', last'.key) = JSONstringify(last'.arg)
            /\ kv'[last'.key].exp = DateNow + last'.ttl * 1000
            /\ last'.key \in dirty_keys'
            /\ last'.ret = last'.arg
            /\ ~Issued(last'.events, "persist") /\ ~Issued(last'.events, "persist!")
            /\ users' = users
            /\ timers' = Append(timers, Scheduled(last'))
       /\ last'.op = "deferred" => DateNow >= Head(timers).due]_vars

\* a writeBack returned over an entry written earlier, with the task of the
\* earlier call still pending
C12_Witness ==
    /\ last.op = "writeBack" /\ ~last.threw
    /\ last.before.by = "writeBack"
    /\ last.arg = Anna /\ last.before.orig = Jan
    /\ Len(timers) = 2
    /\ users = Empty

\* C13: when the deferred persistFn run of a writeBack on key k has failed,
\* k is a member of the dirty set once that task has finished, whatever
\* other writeBack calls on k and their tasks did.
C13_FailedPersistLeavesKeyDirty ==
    (last.op = "deferred" /\ Issued(last.events, "persist!")) => last.key \in dirty_keys

\* the value cached under k was written by writeBack and its deferred task
\* has not run yet, nor does the authoritative store hold that value
AwaitingPersist(k) ==
    /\ k \in DOMAIN kv
    /\ kv[k].by = "writeBack"
    /\ \E i \in 1..Len(timers) : timers[i].key = k /\ timers[i].data = kv[k].orig
    /\ (k \notin DOMAIN users \/ users[k] # kv[k].orig)

\* C18: whenever the cache holds a value for k that writeBack wrote and whose
\* deferred persistFn has not completed successfully (here: has not even
\* started), k is a member of the dirty set.
C18_UnpersistedValueIsDirty ==
    \A k \in {U1} : AwaitingPersist(k) => k \in dirty_keys

-----------------------------------------------------------------------------
(* Write-back while the process keeps running: time passes, every due      *)
(* timer callback is run by the event loop, and persistFn and the store    *)
(* succeed in the deferred tasks.  writeBack is called only while the      *)
(* modelled clock can still reach the task's due time.                     *)

NextWriteBackLive ==
    \/ \E data \in {Jan, Anna}, f \in 0..2 :
           clock.sec < MaxSec /\ WriteBack(U1, data, 2, f)
    \/ DeferredPersist("echo", 0)
    \/ TickSec

SpecWriteBackLive ==
    /\ Init
    /\ [][NextWriteBackLive]_vars
    /\ WF_vars(TickSec)
    /\ WF_vars(DeferredPersist("echo", 0))

\* C14: after a successful writeBack of v on key k, eventually persistFn has
\* been invoked with v (the authoritative store holds v) by a deferred task
\* that removed k from the dirty set.
C14_DirtyKeyEventuallyPersisted ==
    \A v \in {Jan, Anna} :
        (last.op = "writeBack" /\ ~last.threw /\ last.arg = v)
            ~> (/\ last.op = "deferred" /\ last.arg = v
                /\ last.events = <<"persist", "sRem">>
                /\ users[last.key] = v
                /\ last.key \notin dirty_keys)

\* the second of two overlapping writes has been persisted and the marker
\* is cleared while the entry is still cached
C14_Witness ==
    /\ last.op = "deferred" /\ last.arg = Anna
    /\ last.events = <<"persist", "sRem">>
    /\ users = (U1 :> Anna)
    /\ U1 \notin dirty_keys
    /\ timers = <<>>
    /\ Entry(kv, U1).by = "writeBack"

-----------------------------------------------------------------------------
(* Statistics: the read strategies, a writer of the counter keys and of    *)
(* the LRU index, and getStats.                                            *)

NextStats ==
    \/ \E fetch \in Steady({Jan}), f \in 0..2 : CacheAside(U1, fetch, 1, f)
    \/ \E fetch \in Steady({Jan}), f \in 0..2 : ReadThrough(U1, fetch, 1, f)
    \/ \E key \in {CACHE_HITS, CACHE_MISSES} : Set(key, JsNum(7), 1, 0)
    \/ LruSet(KA, Jan, 1, 2, 0)
    \/ \E f \in 0..5 : GetStats(f)
    \/ TickSec

SpecStats == Init /\ [][NextStats]_vars

\* what getStats reports in the current state
StatsNow == getStatsRun(kv, lru_access, lfu_frequency, 0).ret

\* a reported counter as a number: 0, or the digits of the stored text
Reading(v) == IF v.t = "number" THEN v.n ELSE ParseDigits(v.s, 1, 0, FALSE).n

\* C15: each cacheAside or readThrough call served from the cache raises the
\* hits value reported by getStats by one, and each call that misses raises
\* the misses value by one.
C15_StatsCountReads ==
    [][(/\ last'.op \in {"cacheAside", "readThrough"}
        /\ ~StoreFailed(last'.events)
        /\ ~last'.threw) =>
           IF ReadHit(last')
           THEN Reading(StatsNow'.hits) = Reading(StatsNow.hits) + 1
           ELSE Reading(StatsNow'.misses) = Reading(StatsNow.misses) + 1]_vars

-----------------------------------------------------------------------------
(* One sequential caller of both policies who also reads through           *)
(* cacheAside, every call completing without a store failure.              *)

NextBound ==
    \/ \E key \in {KA, KB, KC}, maxSize \in {1, 2} :
           Len(hist) <= MaxPolicyOps /\ LruSet(key, Jan, 1, maxSize, 0)
    \/ \E key \in {KA, KB, KC} : Len(hist) <= MaxPolicyOps /\ LruGet(key, 2, 0)
    \/ \E key \in {KA, KB, KC}, maxSize \in {1, 2} :
           Len(hist) <= MaxPolicyOps /\ LfuSet(key, Jan, 1, maxSize, 0)
    \/ \E key \in {KA, KB, KC} : Len(hist) <= MaxPolicyOps /\ LfuGet(key, 0)
    \/ CacheAside(KB, <<Returns(Anna), Returns(Anna)>>, 1, 0)

SpecBound == Init /\ [][NextBound]_vars

\* every lruSet and lfuSet call made so far was given maxSize n
FixedMaxSize(n) ==
    \A i \in 1..Len(hist) : hist[i].op \in {"lruSet", "lfuSet"} => hist[i].maxSize = n

\* C19: for one sequential caller starting from an empty index and using one
\* fixed maxSize, the population of a policy's index does not exceed maxSize
\* after any lruSet (respectively lfuSet) call has completed.
C19_PopulationWithinMaxSize ==
    \A n \in {1, 2} :
        FixedMaxSize(n) =>
            /\ last.op = "lruSet" => zCard(lru_access) <= n
            /\ last.op = "lfuSet" => zCard(lfu_frequency) <= n

-----------------------------------------------------------------------------
(* Overlapping lruSet calls, then sequential ones, with one maxSize.       *)

NextOverlap ==
    \/ \E key \in {KA, KB, KC, KD} : LruSetBegin(key, Jan, 2, 1)
    \/ \E i \in 1..MaxInflight : LruSetEnd(i)
    \/ \E key \in {KA, KB, KC, KD} : inflight = <<>> /\ LruSet(key, Jan, 2, 1, 0)
    \/ TickMs

SpecOverlap == Init /\ [][NextOverlap]_vars

\* the calls from the i-th on were sequential, successful and on keys no
\* earlier call had used
SequentialOnNewKeys(i) ==
    \A j \in i..Len(hist) :
        /\ hist[j].op = "lruSet"
        /\ hist[j].ret = JsBool(TRUE)
        /\ \A h \in 1..(j - 1) : hist[h].key # hist[j].key

\* C20: when overlapping lruSet calls have left the population above maxSize,
\* the excess is transient: once they have finished, further sequential
\* lruSet calls on new keys with the same maxSize (here: two of them) bring
\* the population back to at most maxSize.
C20_ExcessIsTransient ==
    (/\ inflight = <<>>
     /\ Len(hist) >= 4
     /\ SequentialOnNewKeys(Len(hist) - 1))
        => zCard(lru_access) <= 1

\* a sequential lruSet on a new key that finds the index at or above maxSize
\* leaves the population as it found it
LruSetKeepsPopulation ==
    [][(/\ inflight = <<>> /\ inflight' = <<>>
        /\ last'.op = "lruSet" /\ last'.ret = JsBool(TRUE)
        /\ last'.key \notin DOMAIN lru_access
        /\ zCard(lru_access) >= 1)
        => zCard(lru_access') = zCard(lru_access)]_vars

-----------------------------------------------------------------------------
(* How often a read strategy invokes its loader.                           *)

\* C26: every cacheAside or readThrough call invokes its loader at most once,
\* on every path, store failures and a failure of the loader included.
C26_LoaderInvokedAtMostOnce ==
    last.op \in {"cacheAside", "readThrough"} => Fetches(last) <= 1

-----------------------------------------------------------------------------
(* What a failed writeThrough leaves behind.                               *)

\* C28: a writeThrough call that raises an error is all-or-nothing: the
\* authoritative store did not take persistFn's write and the cache is
\* unchanged.
C28_FailedWriteThroughChangesNothing ==
    [][(last'.op = "writeThrough" /\ last'.threw) => (users' = users /\ kv' = kv)]_vars

-----------------------------------------------------------------------------
(* The LFU score of a key that stays indexed.                              *)

\* the call just completed removed nothing: no eviction took place
NoEviction(c) == ~Issued(c.events, "del") /\ ~Issued(c.events, "zRem")

\* C22: while a key stays in the LFU index its score never decreases: lfuGet
\* raises it by exactly 1, a key newly inserted by lfuSet starts at 1, and no
\* operation that does not remove the key lowers or resets its score.
C22_LfuScoreNeverDecreases ==
    [][NoEviction(last')
         => /\ \A k \in DOMAIN lfu_frequency :
                   /\ k \in DOMAIN lfu_frequency'
                   /\ lfu_frequency'[k] >= lfu_frequency[k]
                   /\ (last'.op = "lfuGet" /\ last'.key = k
                         /\ Issued(last'.events, "zIncrBy"))
                        => lfu_frequency'[k] = lfu_frequency[k] + 1
            /\ \A k \in DOMAIN lfu_frequency' \ DOMAIN lfu_frequency :
                   last'.op = "lfuSet" => lfu_frequency'[k] = 1]_vars

-----------------------------------------------------------------------------
(* Setting a key that is already indexed.                                  *)

\* the step is a completed set call of the policy with index z (z2 after
\* it) on a key that had a record in the index
SetOfIndexedKey(op, c, z) == c.op = op /\ c.ret = JsBool(TRUE) /\ c.key \in DOMAIN z

\* every other key keeps its cache entry and its index record
OthersKept(key, m, m2, z, z2) ==
    /\ \A k \in DOMAIN z \ {key} : k \in DOMAIN z2 /\ z2[k] = z[k]
    /\ \A k \in DOMAIN m \ {key} : k \in DOMAIN m2 /\ m2[k] = m[k]

\* C27: lruSet (respectively lfuSet) on a key that already has a record in
\* the index only overwrites that key's value and score; it never removes a
\* different key's cache entry or index record, even when the population
\* equals maxSize.
C27_SetOfIndexedKeyKeepsOthers ==
    [][/\ SetOfIndexedKey("lruSet", last', lru_access)
           => OthersKept(last'.key, kv, kv', lru_access, lru_access')
       /\ SetOfIndexedKey("lfuSet", last', lfu_frequency)
           => OthersKept(last'.key, kv, kv', lfu_frequency, lfu_frequency')]_vars

-----------------------------------------------------------------------------
(* The eviction step of lruSet and lfuSet, for any capacity (0 included),  *)
(* with calls that succeed and calls whose zRem fails.                     *)

NextEvict ==
    \/ \E key \in {KA, KB}, maxSize \in 0..2, f \in {0, 4} :
           Len(hist) < MaxPolicyOps /\ LruSet(key, Jan, 1, maxSize, f)
    \/ \E key \in {KA, KB}, maxSize \in 0..2, f \in {0, 4} :
           Len(hist) < MaxPolicyOps /\ LfuSet(key, Jan, 1, maxSize, f)
    \/ \E key \in {KA, KB} : Len(hist) < MaxPolicyOps /\ LfuGet(key, 0)
    \/ TickMs

SpecEvict == Init /\ [][NextEvict]_vars

\* the members of index z with the lowest score
Lowest(z) == {v \in DOMAIN z : \A k \in DOMAIN z : z[v] <= z[k]}

\* the keys that lose their cache entry or their index record
Removed(m, z, e) == (DOMAIN m \ DOMAIN e.kv) \cup (DOMAIN z \ DOMAIN e.z)

\* the eviction step on cache m and index z with capacity n
EvictsOne(m, z, n) ==
    LET e == evictRun(m, z, n, 0)
    IN /\ \A f \in 0..6 : Cardinality(Removed(m, z, evictRun(m, z, n, f))) <= 1
       /\ (zCard(z) >= n /\ z # Empty)
            => /\ e.evicted \in Lowest(z)
               /\ e.kv = Remove(m, {e.evicted})
               /\ e.z = zRem(z, e.evicted)
       /\ (zCard(z) < n \/ z = Empty) => (e.kv = m /\ e.z = z /\ e.evicted = NoKey)

\* from an empty index the call still inserts: key is cached and indexed
InsertsIntoEmpty(r, key) ==
    r.ret = JsBool(TRUE) /\ CacheHit(get(r.kv, key)) /\ DOMAIN r.z = {key}

\* C23: each lruSet or lfuSet call evicts at most one key: with the
\* population at or above maxSize it removes exactly the single lowest-score
\* member (cache entry and index record), and with an empty index the
\* eviction step removes nothing and the insert still succeeds.
C23_EvictsAtMostOne ==
    \A n \in 0..2, key \in {KA, KB, KC} :
        /\ EvictsOne(kv, lru_access, n)
        /\ EvictsOne(kv, lfu_frequency, n)
        /\ lru_access = Empty
             => InsertsIntoEmpty(lruSetRun(kv, lru_access, key, Jan, 1, n, 0), key)
        /\ lfu_frequency = Empty
             => InsertsIntoEmpty(lfuSetRun(kv, lfu_frequency, key, Jan, 1, n, 0), key)

\* a lruSet with capacity 0 has inserted into the empty index, and a second
\* lruSet has evicted A, the lowest of a full index, to insert B
C23_Witness ==
    /\ hist = <<Logged("lruSet", KA, 0, JsBool(TRUE)), Logged("lruSet", KB, 1, JsBool(TRUE))>>
    /\ last.op = "lruSet" /\ Issued(last.events, "zRem")
    /\ DOMAIN lru_access = {KB}
    /\ DOMAIN kv = {KB}

-----------------------------------------------------------------------------
(* The process stops: the timers it holds are lost with it, the store      *)
(* keeps what it has.  What runs afterwards is a restarted process.        *)

Exit ==
    /\ timers # <<>>
    /\ timers' = <<>>
    /\ inflight' = <<>>
    /\ calls' = <<>>
    /\ last' = Call("exit", NoKey, JsUndefined, 0, JsUndefined, FALSE, <<>>, NoEntry)
    /\ UNCHANGED <<kv, lru_access, lfu_frequency, dirty_keys, users, clock, hist, chat>>

NextExit ==
    \/ \E data \in {Jan, Anna}, f \in 0..2 : WriteBack(U1, data, 2, f)
    \/ \E persist \in PersistFns, f \in 0..1 : DeferredPersist(persist, f)
    \/ Exit
    \/ TickMs
    \/ TickSec

SpecExit == Init /\ [][NextExit]_vars

\* C24: if the process stops after writeBack(key, ...) has returned and
\* before the deferred delay has elapsed, persistFn is never invoked for that
\* write (its timer is gone), the authoritative store does not receive the
\* value, and key remains a member of the dirty set.
C24_StoppedWriteStaysDirty ==
    [][last'.op = "exit"
         => \A i \in 1..Len(timers) :
                DateNow < timers[i].due
                   => /\ timers' = <<>>
                      /\ users' = users
                      /\ timers[i].key \in dirty_keys']_vars

-----------------------------------------------------------------------------
(* ChatService: rooms and their members.  redisService's wrappers catch a  *)
(* failed command and return null (or [] for getSet), so a failed write is *)
(* skipped and the caller goes on; f is the command that fails.  Of a      *)
(* room's hash the model keeps id, name and createdBy, and no message is   *)
(* ever sent, so a room's message list is empty.                           *)

CACHE_TTL == 300        \* this.CACHE_TTL

CHAT_ROOM == <<"c", "h", "a", "t", ":", "r", "o", "o", "m", ":">>
CHAT_USER == <<"c", "h", "a", "t", ":", "u", "s", "e", "r", ":">>
CHAT_ROOMS_ALL == <<"c", "h", "a", "t", ":", "r", "o", "o", "m", "s", ":", "a", "l", "l">>

roomKey(roomId) == CHAT_ROOM \o roomId
roomUsersKey(roomId) == CHAT_ROOM \o roomId \o <<":", "u", "s", "e", "r", "s">>
roomStatsKey(roomId) == CHAT_ROOM \o roomId \o <<":", "s", "t", "a", "t", "s">>
roomJoinsKey(roomId) == CHAT_ROOM \o roomId \o <<":", "j", "o", "i", "n", "s">>
userKey(userId) == CHAT_USER \o userId
userRoomsKey(userId) == CHAT_USER \o userId \o <<":", "r", "o", "o", "m", "s">>
cacheKey(roomId) ==
    <<"c", "a", "c", "h", "e", ":", "r", "o", "o", "m", ":">> \o roomId
    \o <<":", "i", "n", "f", "o">>

sMembers(sets, key) == IF key \in DOMAIN sets THEN sets[key] ELSE {}
sAdd(sets, key, member) == Put(sets, key, sMembers(sets, key) \cup {member})
incrBy(nums, key, amount) ==
    Put(nums, key, (IF key \in DOMAIN nums THEN nums[key] ELSE 0) + amount)

\* the members of a set as the array SMEMBERS replies with, here in lexical
\* order
RECURSIVE Members(_)
Members(S) ==
    IF S = {} THEN <<>>
    ELSE LET x == CHOOSE x \in S : \A y \in S \ {x} : LexLess(x, y)
         IN <<x>> \o Members(S \ {x})

\* createRoom(roomId, name, createdBy); f: 1 hSet, 2 sAdd
createRoomRun(c, roomId, name, createdBy, f) ==
    LET c1 == IF f = 1 THEN c
              ELSE [c EXCEPT !.hashes = Put(c.hashes, roomKey(roomId),
                                            [id |-> roomId, name |-> name,
                                             createdBy |-> createdBy])]
        c2 == IF f = 2 THEN c1
              ELSE [c1 EXCEPT !.sets = sAdd(c1.sets, CHAT_ROOMS_ALL, roomId)]
    IN [chat |-> c2, ret |-> JsRoom(roomId, 0, <<>>),
        events |-> <<IF f = 1 THEN "hSet!" ELSE "hSet", IF f = 2 THEN "sAdd!" ELSE "sAdd">>]

\* joinRoom(userId, roomId, username); f: 1 hSet, 2 sAdd (room), 3 sAdd
\* (user), 4 zAdd, 5 incrBy
joinRoomRun(c, userId, roomId, username, f) ==
    LET c1 == IF f = 1 THEN c
              ELSE [c EXCEPT !.hashes = Put(c.hashes, userKey(userId),
                                            [id |-> userId, name |-> username,
                                             createdBy |-> <<>>])]
        c2 == IF f = 2 THEN c1
              ELSE [c1 EXCEPT !.sets = sAdd(c1.sets, roomUsersKey(roomId), userId)]
        c3 == IF f = 3 THEN c2
              ELSE [c2 EXCEPT !.sets = sAdd(c2.sets, userRoomsKey(userId), roomId)]
        c4 == IF f = 4 THEN c3
              ELSE [c3 EXCEPT !.zsets =
                        Put(c3.zsets, roomStatsKey(roomId),
                            zAdd(IF roomStatsKey(roomId) \in DOMAIN c3.zsets
                                 THEN c3.zsets[roomStatsKey(roomId)] ELSE Empty,
                                 DateNow, userId))]
        c5 == IF f = 5 THEN c4
              ELSE [c4 EXCEPT !.nums = incrBy(c4.nums, roomJoinsKey(roomId), 1)]
    IN [chat |-> c5, ret |-> JsBool(TRUE),
        events |-> [i \in 1..5 |->
                       <<"hSet", "sAdd", "sAdd", "zAdd", "incrBy">>[i]
                       \o (IF f = i THEN "!" ELSE "")]]

\* leaveRoom(userId, roomId): both commands are redisService.addToSet;
\* f: 1 sAdd (room), 2 sAdd (user)
leaveRoomRun(c, userId, roomId, f) ==
    LET c1 == IF f = 1 THEN c
              ELSE [c EXCEPT !.sets = sAdd(c.sets, roomUsersKey(roomId), userId)]
        c2 == IF f = 2 THEN c1
              ELSE [c1 EXCEPT !.sets = sAdd(c1.sets, userRoomsKey(userId), roomId)]
    IN [chat |-> c2, ret |-> JsBool(TRUE),
        events |-> <<IF f = 1 THEN "sAdd!" ELSE "sAdd", IF f = 2 THEN "sAdd!" ELSE "sAdd">>]

\* the loader getRoomInfo hands to cacheAside; f: 3 hGetAll (getHash gives
\* null and reading its id throws), 4 sMembers (getSet gives [])
roomLoader(c, roomId, f) ==
    IF f = 3 THEN Throws
    ELSE IF roomKey(roomId) \notin DOMAIN c.hashes
              \/ ~Truthy(JsStr(c.hashes[roomKey(roomId)].id))
    THEN Returns(JsNull)
    ELSE LET userIds == IF f = 4 THEN <<>>
                        ELSE Members(sMembers(c.sets, roomUsersKey(roomId)))
         IN Returns(JsRoom(c.hashes[roomKey(roomId)].id, Len(userIds), userIds))

\* getRoomInfo(roomId); f: 1 get, 2 setEx, 3 and 4 as in the loader
getRoomInfoRun(m, c, roomId, f) ==
    LET out == roomLoader(c, roomId, f)
        r == cacheAsideRun(m, cacheKey(roomId), <<out, out>>, CACHE_TTL,
                           IF f \in {1, 2} THEN f ELSE 0)
    IN IF r.threw THEN [r EXCEPT !.ret = JsNull, !.threw = FALSE] ELSE r

CreateRoom(roomId, f) ==
    LET r == createRoomRun(chat, roomId, <<"G">>, <<"s">>, f)
    IN /\ chat' = r.chat
       /\ last' = Call("createRoom", roomId, JsUndefined, 0, r.ret, FALSE, r.events, NoEntry)
       /\ UNCHANGED <<kv, lru_access, lfu_frequency, dirty_keys, users, timers, clock,
                      hist, inflight, calls>>

JoinRoom(userId, roomId, f) ==
    LET r == joinRoomRun(chat, userId, roomId, userId, f)
    IN /\ chat' = r.chat
       /\ last' = Call("joinRoom", roomId, JsStr(userId), 0, r.ret, FALSE, r.events, NoEntry)
       /\ UNCHANGED <<kv, lru_access, lfu_frequency, dirty_keys, users, timers, clock,
                      hist, inflight, calls>>

\* the 'leave-room' socket handler: chatService.leaveRoom and a broadcast
LeaveRoom(userId, roomId, f) ==
    LET r == leaveRoomRun(chat, userId, roomId, f)
    IN /\ chat' = r.chat
       /\ last' = Call("leaveRoom", roomId, JsStr(userId), 0, r.ret, FALSE, r.events, NoEntry)
       /\ UNCHANGED <<kv, lru_access, lfu_frequency, dirty_keys, users, timers, clock,
                      hist, inflight, calls>>

GetRoomInfo(roomId, f) ==
    LET r == getRoomInfoRun(kv, chat, roomId, f)
    IN /\ kv' = r.kv
       /\ last' = Call("getRoomInfo", roomId, JsUndefined, CACHE_TTL, r.ret, r.threw,
                       r.events, Entry(kv, cacheKey(roomId)))
       /\ UNCHANGED <<lru_access, lfu_frequency, dirty_keys, users, timers, clock,
                      hist, inflight, chat, calls>>

\* the room's join counter
Joins(roomId) ==
    IF roomJoinsKey(roomId) \in DOMAIN chat.nums THEN chat.nums[roomJoinsKey(roomId)] ELSE 0

G1 == <<"g">>
UA == <<"a">>
UB == <<"b">>

NextChat ==
    \/ \E f \in 0..1 : CreateRoom(G1, f)
    \/ \E userId \in {UA, UB}, f \in {0, 2} : Joins(G1) < MaxJoins /\ JoinRoom(userId, G1, f)
    \/ \E userId \in {UA, UB}, f \in 0..2 : LeaveRoom(userId, G1, f)
    \/ \E f \in 0..4 : GetRoomInfo(G1, f)
    \/ \E pattern \in {cacheKey(G1)} : Invalidate(pattern, 0)

SpecChat == Init /\ [][NextChat]_vars

\* C25: after leaveRoom(userId, roomId) has returned true, userId is not a
\* member of the room's user set and roomId is not in the user's room set,
\* so that a getRoomInfo computed afresh right afterwards does not count
\* the user.
C25_LeaveRoomRemovesMember ==
    [][/\ (last'.op = "leaveRoom" /\ last'.ret = JsBool(TRUE))
           => /\ last'.arg.s \notin sMembers(chat'.sets, roomUsersKey(last'.key))
              /\ last'.key \notin sMembers(chat'.sets, userRoomsKey(last'.arg.s))
       /\ (/\ last.op = "leaveRoom" /\ last.ret = JsBool(TRUE)
           /\ last'.op = "getRoomInfo" /\ last'.key = last.key
           /\ Issued(last'.events, "fetch") /\ last'.ret.t = "room")
           => \A i \in 1..Len(last'.ret.users) : last'.ret.users[i] # last.arg.s]_vars

-----------------------------------------------------------------------------
(* cacheAside calls that overlap.  A call that misses is suspended at      *)
(* `await dataFetcher()` and again at `await cacheClient.setEx(...)`;      *)
(* other calls run in between.  These steps follow the path on which the   *)
(* store answers and the loader returns.                                   *)

Suspended(op, key, ttl, pc, v, events, before) ==
    [op |-> op, key |-> key, ttl |-> ttl, pc |-> pc, v |-> v, events |-> events,
     before |-> before]

Without(s, i) == SubSeq(s, 1, i - 1) \o SubSeq(s, i + 1, Len(s))

\* the lookup misses and the loader is called
CacheAsideBegin(key, ttl) ==
    /\ Len(calls) < MaxCalls
    /\ ~CacheHit(get(kv, key))
    /\ calls' = Append(calls, Suspended("cacheAside", key, ttl, "fetch", JsUndefined,
                                        <<"get">>, Entry(kv, key)))
    /\ UNCHANGED <<kv, lru_access, lfu_frequency, dirty_keys, users, timers, clock, last,
                   hist, inflight, chat>>

\* the loader returns v: a falsy v is returned as it is, any other is about
\* to be written
CacheAsideFetch(i, v) ==
    /\ i \in 1..Len(calls)
    /\ calls[i].op = "cacheAside" /\ calls[i].pc = "fetch"
    /\ IF Truthy(v)
       THEN /\ calls' = [calls EXCEPT ![i].pc = "setEx", ![i].v = v,
                                      ![i].events = Append(@, "fetch")]
            /\ UNCHANGED <<last, hist>>
       ELSE /\ calls' = Without(calls, i)
            /\ last' = Call("cacheAside", calls[i].key, JsUndefined, calls[i].ttl, v,
                            FALSE, Append(calls[i].events, "fetch"), calls[i].before)
            /\ hist' = Append(hist, Logged("cacheAside overlapping", calls[i].key, 0, v))
    /\ UNCHANGED <<kv, lru_access, lfu_frequency, dirty_keys, users, timers, clock,
                   inflight, chat>>

\* the write reaches the store as it is by then, and the call returns
CacheAsideEnd(i) ==
    /\ i \in 1..Len(calls)
    /\ calls[i].op = "cacheAside" /\ calls[i].pc = "setEx"
    /\ ~setExRejects(calls[i].ttl, JSONstringify(calls[i].v))
    /\ kv' = setEx(kv, calls[i].key, calls[i].ttl, JSONstringify(calls[i].v),
                   "cacheAside", calls[i].v)
    /\ calls' = Without(calls, i)
    /\ last' = Call("cacheAside", calls[i].key, JsUndefined, calls[i].ttl, calls[i].v,
                    FALSE, Append(calls[i].events, "setEx"), calls[i].before)
    /\ hist' = Append(hist, Logged("cacheAside overlapping", calls[i].key, 0, calls[i].v))
    /\ UNCHANGED <<lru_access, lfu_frequency, dirty_keys, users, timers, clock,
                   inflight, chat>>

NextRace ==
    \/ Len(hist) + Len(calls) < MaxReads /\ CacheAsideBegin(U1, 1)
    \/ \E i \in 1..MaxCalls, v \in {JsNull, Jan, Anna} : CacheAsideFetch(i, v)
    \/ \E i \in 1..MaxCalls : CacheAsideEnd(i)
    \/ TickSec

SpecRace == Init /\ [][NextRace]_vars

\* the last two calls completed were cacheAside calls on one key that both
\* missed and both wrote the cache
BothWrote ==
    /\ Len(hist) >= 2
    /\ LET a == hist[Len(hist) - 1]
           b == hist[Len(hist)]
       IN /\ a.op = "cacheAside overlapping" /\ b.op = "cacheAside overlapping"
          /\ a.key = b.key
          /\ Truthy(a.ret) /\ Truthy(b.ret)

\* C21: two concurrent cacheAside calls on an absent key can both miss, both
\* invoke their loader and both write; once both have finished, the cache
\* entry of the key is the value of the write that reached the store last.
C21_LastWriteWins ==
    (calls = <<>> /\ BothWrote /\ last.op = "cacheAside")
        => get(kv, last.key) = JSONstringify(hist[Len(hist)].ret)

\* within the entry's lifetime two calls have both missed and both written,
\* Jan first and Anna last, and the cache holds Anna
C21_Witness ==
    /\ calls = <<>>
    /\ clock.sec = 0
    /\ hist = <<Logged("cacheAside overlapping", U1, 0, Jan),
                Logged("cacheAside overlapping", U1, 0, Anna)>>
    /\ last.op = "cacheAside" /\ last.before = NoEntry
    /\ JSONparse(get(kv, U1)).v = Anna

-----------------------------------------------------------------------------
(* writeAround overlapping cacheAside calls whose loader reads the         *)
(* authoritative store.  writeAround is suspended at                       *)
(* `await cacheClient.del(key)`, after dbWriter has stored the record.     *)

\* mockDB.findUser: this.users[id] || null
findUser(db, key) == IF key \in DOMAIN db /\ Truthy(db[key]) THEN db[key] ELSE JsNull

\* dbWriter has stored its record; the invalidation is on its way
WriteAroundBegin(key, data, persist) ==
    /\ Len(calls) < MaxCalls
    /\ persist # "throws"
    /\ users' = Put(users, key, Persisted(persist, data))
    /\ calls' = Append(calls, Suspended("writeAround", key, 0, "del",
                                        Persisted(persist, data), <<"persist">>,
                                        Entry(kv, key)))
    /\ UNCHANGED <<kv, lru_access, lfu_frequency, dirty_keys, timers, clock, last, hist,
                   inflight, chat>>

\* the invalidation reaches the store, and the call returns
WriteAroundEnd(i) ==
    /\ i \in 1..Len(calls)
    /\ calls[i].op = "writeAround" /\ calls[i].pc = "del"
    /\ kv' = Remove(kv, {calls[i].key})
    /\ calls' = Without(calls, i)
    /\ last' = Call("writeAround", calls[i].key, calls[i].v, 0, calls[i].v, FALSE,
                    Append(calls[i].events, "del"), calls[i].before)
    /\ hist' = Append(hist, Logged("writeAround overlapping", calls[i].key, 0, calls[i].v))
    /\ UNCHANGED <<lru_access, lfu_frequency, dirty_keys, users, timers, clock,
                   inflight, chat>>

\* the store holds Jan under the key; then one writeAround of Anna, with
\* cacheAside calls before, during and after it
NextAround ==
    \/ users = Empty /\ WriteAround(U1, Jan, "echo", 0)
    \/ (U1 \in DOMAIN users /\ users[U1] = Jan) /\ WriteAroundBegin(U1, Anna, "echo")
    \/ \E i \in 1..Len(calls) : WriteAroundEnd(i)
    \/ Len(hist) + Len(calls) < MaxReads /\ CacheAsideBegin(U1, 1)
    \/ \E i \in 1..Len(calls) : CacheAsideFetch(i, findUser(users, calls[i].key))
    \/ \E i \in 1..Len(calls) : CacheAsideEnd(i)
    \/ TickSec

SpecAround == Init /\ [][NextAround]_vars

\* C30: for every interleaving of a writeAround(k, v, persist) call with
\* concurrent cacheAside(k, loader) calls whose loader reads the
\* authoritative store, once all these calls have returned the cache holds
\* no entry for k or the value v, never the value the store held before.
C30_NoStaleValueAfterWriteAround ==
    (/\ calls = <<>>
     /\ \E i \in 1..Len(hist) : hist[i] = Logged("writeAround overlapping", U1, 0, Anna))
        => \/ ~CacheHit(get(kv, U1))
           \/ JSONparse(get(kv, U1)).v = Anna

-----------------------------------------------------------------------------
(* The deferred tasks of two writeBack calls on one key.  A task is        *)
(* suspended at `await dbWriter(data)`: persistFn has been invoked when    *)
(* the timer fires, and its write reaches the authoritative store when it  *)
(* completes, which for two runs in flight may be in either order.         *)

\* the timer fires and the callback invokes dbWriter
DeferredBegin ==
    /\ timers # <<>>
    /\ DateNow >= Head(timers).due
    /\ Len(calls) < MaxCalls
    /\ timers' = Tail(timers)
    /\ calls' = Append(calls, Suspended("deferred", Head(timers).key, 0, "persist",
                                        Head(timers).data, <<>>,
                                        Entry(kv, Head(timers).key)))
    /\ UNCHANGED <<kv, lru_access, lfu_frequency, dirty_keys, users, clock, last, hist,
                   inflight, chat>>

\* dbWriter completes, and the callback goes on to its sRem
DeferredEnd(i, persist) ==
    /\ i \in 1..Len(calls)
    /\ calls[i].op = "deferred"
    /\ LET r == deferredRun(users, dirty_keys, [key |-> calls[i].key, data |-> calls[i].v],
                            persist, 0)
       IN /\ users' = r.users
          /\ dirty_keys' = r.dirty_keys
          /\ last' = Call("deferred", calls[i].key, calls[i].v, 0, JsUndefined, FALSE,
                          r.events, calls[i].before)
    /\ calls' = Without(calls, i)
    /\ hist' = Append(hist, Logged("deferred", calls[i].key, 0, calls[i].v))
    /\ UNCHANGED <<kv, lru_access, lfu_frequency, timers, clock, inflight, chat>>

\* a writeBack of v has been called: its task is pending, running or done
Written(v) ==
    \/ \E i \in 1..Len(timers) : timers[i].data = v
    \/ \E i \in 1..Len(calls) : calls[i].op = "deferred" /\ calls[i].v = v
    \/ \E i \in 1..Len(hist) : hist[i].op = "deferred" /\ hist[i].ret = v

\* writeBack(k, Jan), then writeBack(k, Anna), then their deferred tasks
NextOrder ==
    \/ (~Written(Jan) /\ ~Written(Anna)) /\ WriteBack(U1, Jan, 2, 0)
    \/ (Written(Jan) /\ ~Written(Anna)) /\ WriteBack(U1, Anna, 2, 0)
    \/ DeferredBegin
    \/ \E i \in 1..Len(calls) : DeferredEnd(i, "echo")
    \/ TickMs
    \/ TickSec

SpecOrder == Init /\ [][NextOrder]_vars

\* both deferred tasks have finished
BothPersisted == timers = <<>> /\ calls = <<>> /\ Written(Jan) /\ Written(Anna)

\* C29: if writeBack(k, v1) and then writeBack(k, v2) are called and both
\* deferred persistFn runs succeed, then once both tasks have finished the
\* authoritative store holds v2, which is the value the cache holds for k
\* (as long as the entry lives), and k is not in the dirty set.
C29_LaterWriteBackPersistsLast ==
    BothPersisted
        => /\ U1 \in DOMAIN users /\ users[U1] = Anna
           /\ CacheHit(get(kv, U1)) => JSONparse(get(kv, U1)).v = Anna
           /\ U1 \notin dirty_keys

-----------------------------------------------------------------------------
(* The whole service: every operation with the inputs used above, the      *)
(* deferred write-back task and the clock.                                 *)

Next ==
    \/ NextRead
    \/ NextWrite
    \/ NextLru
    \/ NextLfu
    \/ NextInvalidate
    \/ NextIndex
    \/ NextWriteBack
    \/ NextStats
    \/ NextBound
    \/ NextOverlap
    \/ NextEvict
    \/ NextExit
    \/ NextChat
    \/ NextRace
    \/ NextAround
    \/ NextOrder

Spec == Init /\ [][Next]_vars

====
